---- MODULE Spec2Model ----
(***************************************************************************)
(* A model of lambda_firecrawl_scraper.py: the FirecrawlLambdaScraper      *)
(* class (policy filter, filename derivation, image discovery, image       *)
(* fetching) and the lambda_handler run that drives it.                    *)
(*                                                                         *)
(* Strings are TLA+ strings; a character is a string of length 1.          *)
(***************************************************************************)
EXTENDS Integers, Sequences, FiniteSets, TLC

(***************************************************************************)
(* Python str helpers.                                                     *)
(***************************************************************************)

\* s[i] for a 1-based index i
CharAt(s, i) == SubSeq(s, i, i)

\* s[i-1:] in Python terms: the suffix starting at 1-based index i
From(s, i) == SubSeq(s, i, Len(s))

\* s[:n]
Take(s, n) == SubSeq(s, 1, IF n < Len(s) THEN n ELSE Len(s))

\* str.startswith
StartsWith(s, p) == Len(p) <= Len(s) /\ SubSeq(s, 1, Len(p)) = p

\* str.endswith
EndsWith(s, p) == Len(p) <= Len(s) /\ SubSeq(s, Len(s) - Len(p) + 1, Len(s)) = p

\* the `in` operator on two strings (substring test)
Contains(s, k) == \E i \in 1..(Len(s) - Len(k) + 1) : SubSeq(s, i, i + Len(k) - 1) = k

\* str.find(k, start) with 1-based positions; 0 when k does not occur
FindFrom(s, k, start) ==
    LET hits == {i \in start..(Len(s) - Len(k) + 1) : SubSeq(s, i, i + Len(k) - 1) = k}
    IN  IF hits = {} THEN 0 ELSE CHOOSE i \in hits : \A j \in hits : i <= j

Find(s, k) == FindFrom(s, k, 1)

\* str.rfind(k) with 1-based positions; 0 when k does not occur
RFind(s, k) ==
    LET hits == {i \in 1..(Len(s) - Len(k) + 1) : SubSeq(s, i, i + Len(k) - 1) = k}
    IN  IF hits = {} THEN 0 ELSE CHOOSE i \in hits : \A j \in hits : j <= i

UpperLetters == "ABCDEFGHIJKLMNOPQRSTUVWXYZ"
LowerLetters == "abcdefghijklmnopqrstuvwxyz"
Digits == "0123456789"

IsUpper(c) == Contains(UpperLetters, c) /\ Len(c) = 1
IsLower(c) == Contains(LowerLetters, c) /\ Len(c) = 1
IsDigit(c) == Contains(Digits, c) /\ Len(c) = 1

LowerChar(c) == IF IsUpper(c) THEN CharAt(LowerLetters, Find(UpperLetters, c)) ELSE c

\* str.lower (the string is halved at each level to keep the recursion shallow)
RECURSIVE Lower(_)
Lower(s) ==
    IF Len(s) = 0 THEN ""
    ELSE IF Len(s) = 1 THEN LowerChar(s)
    ELSE Lower(SubSeq(s, 1, Len(s) \div 2)) \o Lower(From(s, Len(s) \div 2 + 1))

\* str.split(sep): a sequence of strings
RECURSIVE Split(_, _)
Split(s, sep) ==
    LET i == Find(s, sep)
    IN  IF i = 0 THEN <<s>> ELSE <<SubSeq(s, 1, i - 1)>> \o Split(From(s, i + Len(sep)), sep)

\* sep.join(parts)
RECURSIVE Join(_, _)
Join(parts, sep) ==
    IF Len(parts) = 0 THEN ""
    ELSE IF Len(parts) = 1 THEN parts[1]
    ELSE parts[1] \o sep \o Join(Tail(parts), sep)

\* s repeated n times
RECURSIVE Repeat(_, _)
Repeat(s, n) ==
    IF n = 0 THEN ""
    ELSE IF n = 1 THEN s
    ELSE Repeat(s, n \div 2) \o Repeat(s, n - n \div 2)

(***************************************************************************)
(* urllib.parse as the scraper uses it: urlparse and urljoin.  Inputs hold *)
(* no whitespace or control characters, so the stripping urlsplit starts   *)
(* with changes nothing.                                                   *)
(***************************************************************************)

SchemeChars == UpperLetters \o LowerLetters \o Digits \o "+-."

\* urllib.parse.uses_relative, uses_netloc and uses_params, cut to the schemes
\* the model's URLs carry
UsesRelative == {"", "ftp", "http", "https", "file"}
UsesNetloc == {"", "ftp", "http", "https", "file"}
UsesParams == {"", "ftp", "http", "https"}

\* "for c in url[:i]: if c not in scheme_chars: break"
AllSchemeChars(s) == \A k \in 1..Len(s) : Contains(SchemeChars, CharAt(s, k))

\* first position at or after start of any of '/', '?', '#'; Len(url)+1 if none
NetlocEnd(url, start) ==
    LET hits == {i \in start..Len(url) : CharAt(url, i) \in {"/", "?", "#"}}
    IN  IF hits = {} THEN Len(url) + 1 ELSE CHOOSE i \in hits : \A j \in hits : i <= j

\* The steps of urlsplit pass what they have cut off to the next step.

\* the last step: "if '?' in url: url, query = url.split('?', 1)", with q the
\* place of the first '?'; error stands for ValueError("Invalid IPv6 URL")
SplitQuery(scheme, netloc, url, fragment, q) ==
    [scheme |-> scheme, netloc |-> netloc,
     path |-> IF q > 0 THEN SubSeq(url, 1, q - 1) ELSE url,
     query |-> IF q > 0 THEN From(url, q + 1) ELSE "",
     fragment |-> fragment,
     error |-> \/ (Contains(netloc, "[") /\ ~Contains(netloc, "]"))
               \/ (Contains(netloc, "]") /\ ~Contains(netloc, "["))]

\* "if '#' in url: url, fragment = url.split('#', 1)", h the first '#'
SplitFragmentAt(scheme, netloc, url, h) ==
    IF h > 0
    THEN SplitQuery(scheme, netloc, SubSeq(url, 1, h - 1), From(url, h + 1),
                    Find(SubSeq(url, 1, h - 1), "?"))
    ELSE SplitQuery(scheme, netloc, url, "", Find(url, "?"))

SplitFragment(scheme, netloc, url) == SplitFragmentAt(scheme, netloc, url, Find(url, "#"))

\* "if url[:2] == '//': netloc, url = _splitnetloc(url, 2)", e the netloc's end
SplitNetlocAt(scheme, url, e) == SplitFragment(scheme, SubSeq(url, 3, e - 1), From(url, e))

SplitNetloc(scheme, url) ==
    IF StartsWith(url, "//") THEN SplitNetlocAt(scheme, url, NetlocEnd(url, 3))
    ELSE SplitFragment(scheme, "", url)

\* the scheme is cut off when url[:i] is a letter followed by scheme characters
SplitSchemeAt(url, defaultScheme, i) ==
    IF /\ i > 1
       /\ (IsUpper(CharAt(url, 1)) \/ IsLower(CharAt(url, 1)))
       /\ AllSchemeChars(SubSeq(url, 1, i - 1))
    THEN SplitNetloc(Lower(SubSeq(url, 1, i - 1)), From(url, i + 1))
    ELSE SplitNetloc(defaultScheme, url)

\* urlsplit(url, scheme): [scheme, netloc, path, query, fragment, error]
UrlSplit(url, defaultScheme) == SplitSchemeAt(url, defaultScheme, Find(url, ":"))

\* _splitparams: the place of the ';' that starts the params, 0 when none
ParamsAt(path, slash) == IF slash > 0 THEN FindFrom(path, ";", slash) ELSE Find(path, ";")

\* urlparse's own step: ";params" is cut off the last path segment
SplitParams(sp, semi) ==
    [scheme |-> sp.scheme, netloc |-> sp.netloc,
     path |-> IF sp.scheme \in UsesParams /\ semi > 0
              THEN SubSeq(sp.path, 1, semi - 1) ELSE sp.path,
     params |-> IF sp.scheme \in UsesParams /\ semi > 0
                THEN From(sp.path, semi + 1) ELSE "",
     query |-> sp.query, fragment |-> sp.fragment, error |-> sp.error]

UrlParseSplit(sp) == SplitParams(sp, ParamsAt(sp.path, RFind(sp.path, "/")))

\* urlparse(url, scheme)
UrlParseWith(url, defaultScheme) == UrlParseSplit(UrlSplit(url, defaultScheme))

UrlParse(url) == UrlParseWith(url, "")

\* urlunsplit's steps, each handed the URL built so far
AddFragment(url, fragment) == IF fragment # "" THEN url \o "#" \o fragment ELSE url

AddQuery(url, query, fragment) ==
    AddFragment(IF query # "" THEN url \o "?" \o query ELSE url, fragment)

AddScheme(scheme, url, query, fragment) ==
    AddQuery(IF scheme # "" THEN scheme \o ":" \o url ELSE url, query, fragment)

AddNetloc(scheme, netloc, url, query, fragment) ==
    AddScheme(scheme,
              IF netloc # "" \/ (scheme # "" /\ scheme \in UsesNetloc /\ ~StartsWith(url, "//"))
              THEN "//" \o netloc \o (IF url # "" /\ ~StartsWith(url, "/") THEN "/" ELSE "") \o url
              ELSE url,
              query, fragment)

\* urlunparse
UrlUnparse(scheme, netloc, path, params, query, fragment) ==
    AddNetloc(scheme, netloc, IF params # "" THEN path \o ";" \o params ELSE path,
              query, fragment)

\* "segments[1:-1] = filter(None, segments[1:-1])": the empty segments between
\* the first and the last are dropped
DropInnerEmpty(segs) ==
    IF Len(segs) <= 2 THEN segs
    ELSE <<segs[1]>>
         \o SelectSeq(SubSeq(segs, 2, Len(segs) - 1), LAMBDA x : x # "")
         \o <<segs[Len(segs)]>>

\* the loop over segments that resolves "." and ".."
RECURSIVE ResolveSegments(_, _)
ResolveSegments(segs, acc) ==
    IF Len(segs) = 0 THEN acc
    ELSE IF segs[1] = ".."
         THEN ResolveSegments(Tail(segs),
                  IF Len(acc) = 0 THEN acc ELSE SubSeq(acc, 1, Len(acc) - 1))
    ELSE IF segs[1] = "." THEN ResolveSegments(Tail(segs), acc)
    ELSE ResolveSegments(Tail(segs), Append(acc, segs[1]))

\* base_parts: the base path's segments without the last one, unless it is ''
BaseParts(parts) ==
    IF parts[Len(parts)] # "" THEN SubSeq(parts, 1, Len(parts) - 1) ELSE parts

\* the path urljoin builds from the segments
ResolvedPath(segments) ==
    Join(IF segments[Len(segments)] \in {".", ".."}
         THEN Append(ResolveSegments(segments, <<>>), "")
         ELSE ResolveSegments(segments, <<>>), "/")

OrRoot(path) == IF path = "" THEN "/" ELSE path

\* urljoin once base and url are parsed (b and r)
UrlJoinParsed(b, r, url) ==
    IF r.scheme # b.scheme \/ r.scheme \notin UsesRelative THEN url
    ELSE IF r.scheme \in UsesNetloc /\ r.netloc # ""
    THEN UrlUnparse(r.scheme, r.netloc, r.path, r.params, r.query, r.fragment)
    ELSE IF r.path = "" /\ r.params = ""
    THEN UrlUnparse(r.scheme, b.netloc, b.path, b.params,
                    IF r.query = "" THEN b.query ELSE r.query, r.fragment)
    ELSE UrlUnparse(r.scheme, b.netloc,
                    OrRoot(ResolvedPath(
                        IF StartsWith(r.path, "/") THEN Split(r.path, "/")
                        ELSE DropInnerEmpty(BaseParts(Split(b.path, "/"))
                                            \o Split(r.path, "/")))),
                    r.params, r.query, r.fragment)

UrlJoinBase(b, url) == UrlJoinParsed(b, UrlParseWith(url, b.scheme), url)

\* urljoin(base, url)
UrlJoin(base, url) ==
    IF base = "" THEN url
    ELSE IF url = "" THEN base
    ELSE UrlJoinBase(UrlParse(base), url)

UrlJoinBaseRaises(b, url) == b.error \/ UrlParseWith(url, b.scheme).error

\* urljoin(base, url) raises ValueError: one of its two urlparse calls does
UrlJoinRaises(base, url) ==
    base # "" /\ url # "" /\ UrlJoinBaseRaises(UrlParse(base), url)

(***************************************************************************)
(* The robots.txt parser (urllib.robotparser, outside this repository).    *)
(* A parser is [loaded, disallow]: loaded is FALSE for robots_parser =      *)
(* None; disallow is the set of path prefixes its directives forbid.        *)
(***************************************************************************)

NoParser == [loaded |-> FALSE, disallow |-> {}]

\* robots_parser.can_fetch(user_agent, url), u being the parsed url: "allow",
\* "deny", or "raise" when the URL cannot be parsed
CanFetchParsed(parser, u) ==
    IF u.error THEN "raise"
    ELSE IF \E d \in parser.disallow : StartsWith(OrRoot(u.path), d) THEN "deny"
    ELSE "allow"

CanFetch(parser, url) == CanFetchParsed(parser, UrlParse(url))

(***************************************************************************)
(* Policy Filter: _is_url_allowed                                          *)
(***************************************************************************)

\* self.allowed_domains
allowed_domains == {"jiopay.com", "www.jiopay.com"}

\* the keyword list of _is_url_allowed
GatedKeywords == {"login", "signin", "account", "profile", "dashboard", "admin",
                  "user", "password", "token", "auth", "private", "secure"}

\* what the try/except around can_fetch makes of its outcome
RobotsVerdict(r) == IF r = "raise" THEN TRUE ELSE r = "allow"

\* robots_allowed
RobotsAllowed(parser, url) ==
    IF ~parser.loaded THEN TRUE ELSE RobotsVerdict(CanFetch(parser, url))

\* domain_allowed: any(domain in parsed_url.netloc for domain in allowed_domains)
DomainAllowed(parsed_url) == \E domain \in allowed_domains : Contains(parsed_url.netloc, domain)

\* any(keyword in path_lower or keyword in query_lower for keyword in [...])
HasGatedKeyword(path_lower, query_lower) ==
    \E keyword \in GatedKeywords : Contains(path_lower, keyword) \/ Contains(query_lower, keyword)

\* is_public with the query left unchecked
IsPublicPathOnly(parsed_url) == ~HasGatedKeyword(Lower(parsed_url.path), "")

\* is_public
IsPublic(parsed_url) == ~HasGatedKeyword(Lower(parsed_url.path), Lower(parsed_url.query))

\* urlparse(url) at line 86 raises ValueError, and _is_url_allowed with it
IsUrlAllowedRaises(url) == UrlParse(url).error

\* "return robots_allowed and domain_allowed and is_public"
PolicyResult(robots_allowed, parsed_url) ==
    robots_allowed /\ DomainAllowed(parsed_url) /\ IsPublic(parsed_url)

\* _is_url_allowed(url), for a url urlparse accepts
IsUrlAllowed(parser, url) == PolicyResult(RobotsAllowed(parser, url), UrlParse(url))

(***************************************************************************)
(* The clock: datetime.now() as seconds since midnight of 2025-01-01.      *)
(***************************************************************************)

Digit(d) == CharAt(Digits, d + 1)
TwoDigits(n) == Digit((n \div 10) % 10) \o Digit(n % 10)

\* datetime.now().strftime("%Y%m%d_%H%M%S")
Timestamp(t) ==
    "20250101_" \o TwoDigits(t \div 3600) \o TwoDigits((t \div 60) % 60) \o TwoDigits(t % 60)

(***************************************************************************)
(* Filename Deriver: _generate_filename and _generate_image_filename       *)
(***************************************************************************)

\* the length _generate_filename cuts the cleaned URL to
MaxNameLen == 100

\* first match of the regex https?:// in s, a and b being the first places of
\* "http://" and "https://": [at, len], at = 0 when there is none
FirstSchemeMatchOf(a, b) ==
    IF a = 0 /\ b = 0 THEN [at |-> 0, len |-> 0]
    ELSE IF b = 0 \/ (a # 0 /\ a < b) THEN [at |-> a, len |-> 7]
    ELSE [at |-> b, len |-> 8]

FirstSchemeMatch(s) == FirstSchemeMatchOf(Find(s, "http://"), Find(s, "https://"))

\* re.sub(r'https?://', '', url): every match is removed, left to right
RECURSIVE StripSchemes(_)
StripSchemesAt(s, m) ==
    IF m.at = 0 THEN s
    ELSE SubSeq(s, 1, m.at - 1) \o StripSchemes(From(s, m.at + m.len))

StripSchemes(s) == StripSchemesAt(s, FirstSchemeMatch(s))

\* the character class without the hyphen: [a-zA-Z0-9_]
IsNameCharNoHyphen(c) == IsLower(c) \/ IsUpper(c) \/ IsDigit(c) \/ c = "_"

\* the character class [a-zA-Z0-9_-]
IsNameChar(c) == IsLower(c) \/ IsUpper(c) \/ IsDigit(c) \/ c = "_" \/ c = "-"

\* re.sub(r'[^a-zA-Z0-9_-]', '_', s)
RECURSIVE CleanChars(_)
CleanChars(s) ==
    IF Len(s) = 0 THEN ""
    ELSE IF Len(s) = 1 THEN (IF IsNameChar(s) THEN s ELSE "_")
    ELSE CleanChars(SubSeq(s, 1, Len(s) \div 2)) \o CleanChars(From(s, Len(s) \div 2 + 1))

\* _generate_filename(url, extension) called when the clock reads t
\* "if len(clean_url) > 100: clean_url = clean_url[:100]"
CutName(clean_url) ==
    IF Len(clean_url) > MaxNameLen THEN Take(clean_url, MaxNameLen) ELSE clean_url

GenerateFilename(url, extension, t) ==
    CutName(CleanChars(StripSchemes(url))) \o "_" \o Timestamp(t) \o "." \o extension

\* a hash that gives every URL the same digits
Md5Hex12Constant(image_url) == "413034c4bb7e"

\* hashlib.md5(image_url.encode()).hexdigest()[:12], for the image URLs of
\* the site the model crawls
Md5Hex12(image_url) ==
    CASE image_url = "https://jiopay.com/img/hero.png" -> "413034c4bb7e"
      [] image_url = "https://cdn.evil.test/banner.jpg" -> "69cda92e0240"
      [] image_url = "https://www.jiopay.com/img/logo.svg" -> "fcc3b009a8a0"
      [] image_url = "https://[jiopay.com/img/x.png" -> "c5d18a329c64"

\* the extension chosen from the content type
ExtFromContentType(content_type) ==
    IF Contains(content_type, "jpeg") \/ Contains(content_type, "jpg") THEN "jpg"
    ELSE IF Contains(content_type, "png") THEN "png"
    ELSE IF Contains(content_type, "gif") THEN "gif"
    ELSE IF Contains(content_type, "webp") THEN "webp"
    ELSE IF Contains(content_type, "svg") THEN "svg"
    ELSE "jpg"

\* the extension chosen from the URL's lower-cased path
ExtFromPath(path) ==
        IF EndsWith(path, ".jpg") \/ EndsWith(path, ".jpeg") THEN "jpg"
        ELSE IF EndsWith(path, ".png") THEN "png"
        ELSE IF EndsWith(path, ".gif") THEN "gif"
        ELSE IF EndsWith(path, ".webp") THEN "webp"
        ELSE IF EndsWith(path, ".svg") THEN "svg"
        ELSE "jpg"


\* _generate_image_filename(image_url, content_type) called when the clock
\* reads t; content_type = "" stands for None as well (both are falsy)
GenerateImageFilename(image_url, content_type, t) ==
    "img_" \o Md5Hex12(image_url) \o "_" \o Timestamp(t) \o "."
    \o (IF content_type # "" THEN ExtFromContentType(content_type)
        ELSE ExtFromPath(Lower(UrlParse(image_url).path)))

(***************************************************************************)
(* Image Discoverer: _is_valid_image_url, extract_image_urls_from_html     *)
(***************************************************************************)

TrackingMarkers == {"1x1", "1px", "pixel"}
ImageExtensions == {".jpg", ".jpeg", ".png", ".gif", ".webp", ".svg", ".bmp"}
ImageKeywords == {"image", "img", "photo", "picture"}

\* the checks with the extension test ahead of the marker test
ValidLoweredExtensionFirst(url_lower) ==
    IF \E ext \in ImageExtensions : EndsWith(url_lower, ext) THEN TRUE
    ELSE IF \E dim \in TrackingMarkers : Contains(url_lower, dim) THEN FALSE
    ELSE IF \E keyword \in ImageKeywords : Contains(url_lower, keyword) THEN TRUE
    ELSE FALSE

\* the checks of _is_valid_image_url on url.lower(), in the code's order
ValidLowered(url_lower) ==
    IF \E dim \in TrackingMarkers : Contains(url_lower, dim) THEN FALSE
    ELSE IF \E ext \in ImageExtensions : EndsWith(url_lower, ext) THEN TRUE
    ELSE IF \E keyword \in ImageKeywords : Contains(url_lower, keyword) THEN TRUE
    ELSE FALSE

\* _is_valid_image_url(url)
IsValidImageUrl(url) ==
    IF url = "" THEN FALSE
    ELSE IF StartsWith(url, "data:") THEN FALSE
    ELSE ValidLowered(Lower(url))

\* the chain with '//' turned into http: instead of https:
MakeAbsoluteHttp(src, base_url) ==
    IF StartsWith(src, "//") THEN "http:" \o src
    ELSE IF StartsWith(src, "/") THEN UrlJoin(base_url, src)
    ELSE IF ~(StartsWith(src, "http://") \/ StartsWith(src, "https://"))
         THEN UrlJoin(base_url, src)
    ELSE src

\* the if/elif chain that makes an accepted candidate absolute
MakeAbsolute(src, base_url) ==
    IF StartsWith(src, "//") THEN "https:" \o src
    ELSE IF StartsWith(src, "/") THEN UrlJoin(base_url, src)
    ELSE IF ~(StartsWith(src, "http://") \/ StartsWith(src, "https://"))
         THEN UrlJoin(base_url, src)
    ELSE src

\* the chain raises: it reaches a urljoin call that raises
MakeAbsoluteRaises(src, base_url) ==
    /\ ~StartsWith(src, "//")
    /\ StartsWith(src, "/") \/ ~(StartsWith(src, "http://") \/ StartsWith(src, "https://"))
    /\ UrlJoinRaises(base_url, src)

QuoteChars == {"\"", "'"}

\* first position at or after i that holds no whitespace (the regex's \s*)
SkipSpace(s, i) ==
    LET stops == {j \in i..(Len(s) + 1) : j > Len(s) \/ CharAt(s, j) \notin {" ", "\t", "\n"}}
    IN  CHOOSE j \in stops : \A k \in stops : j <= k

\* end of the longest run of characters other than '"', "'" and ')' from i on:
\* the first position after the run
RunEnd(s, i) ==
    LET stops == {j \in i..(Len(s) + 1) :
                     j > Len(s) \/ CharAt(s, j) \in (QuoteChars \cup {")"})}
    IN  IF i > Len(s) + 1 THEN i ELSE CHOOSE j \in stops : \A k \in stops : j <= k

\* A match of  background-image:\s*url\(["\']?([^"\')]+)["\']?\)  that starts
\* at p, step by step: [ok, group, next] with the captured group and the
\* position after the match.

\* with the group at c..d-1 and e the position the closing ')' must hold
BgMatchClose(style, c, d, e) ==
    [ok |-> d > c /\ e <= Len(style) /\ CharAt(style, e) = ")",
     group |-> SubSeq(style, c, d - 1), next |-> e + 1]

\* ["\']? after the group, which ends before d
BgMatchGroupEnd(style, c, d) ==
    BgMatchClose(style, c, d,
                 IF d <= Len(style) /\ CharAt(style, d) \in QuoteChars THEN d + 1 ELSE d)

\* ([^"\')]+) from c on
BgMatchGroup(style, c) == BgMatchGroupEnd(style, c, RunEnd(style, c))

\* url\( at a, then ["\']?
BgMatchUrl(style, a) ==
    IF a + 3 <= Len(style) /\ SubSeq(style, a, a + 3) = "url("
    THEN BgMatchGroup(style,
             IF a + 4 <= Len(style) /\ CharAt(style, a + 4) \in QuoteChars
             THEN a + 5 ELSE a + 4)
    ELSE [ok |-> FALSE, group |-> "", next |-> a]

BgMatchAt(style, p) == BgMatchUrl(style, SkipSpace(style, p + Len("background-image:")))

\* the matches from position p on, p being where the literal was found
RECURSIVE BgMatchesFrom(_, _)
BgMatchesAt(style, p, m) ==
    IF m.ok THEN <<m.group>> \o BgMatchesFrom(style, m.next)
    ELSE BgMatchesFrom(style, p + 1)

BgMatchesFound(style, p) == IF p = 0 THEN <<>> ELSE BgMatchesAt(style, p, BgMatchAt(style, p))

\* re.findall(pattern, style): the groups of the non-overlapping matches
BgMatchesFrom(style, start) == BgMatchesFound(style, FindFrom(style, "background-image:", start))

bg_matches(style) == BgMatchesFrom(style, 1)

\* A parsed HTML document is a sequence of elements [tag, src, data_src,
\* style]; an attribute the element lacks is "" (img.get returns None, which
\* the code treats like the empty string).
Range(f) == {f[i] : i \in DOMAIN f}

\* the candidates the three scans look at
ScannedCandidates(doc) ==
    {e.src : e \in {x \in Range(doc) : x.tag = "img"}}
    \cup {e.data_src : e \in {x \in Range(doc) : x.tag = "img"}}
    \cup UNION {Range(bg_matches(e.style)) : e \in Range(doc)}

\* the candidates that pass _is_valid_image_url, over the three scans
ValidCandidates(doc) ==
    {c \in ScannedCandidates(doc) :
        IsValidImageUrl(c)}

\* the set image_urls once the three scans are through
ImageUrlsOf(valid, base_url) == {MakeAbsolute(c, base_url) : c \in valid}

\* the try block of extract_image_urls_from_html left by an exception, which
\* the except clause turns into the empty list
ExtractRaises(valid, base_url) == \E c \in valid : MakeAbsoluteRaises(c, base_url)

ExtractFromValid(valid, base_url) ==
    IF ExtractRaises(valid, base_url) THEN {} ELSE ImageUrlsOf(valid, base_url)

\* extract_image_urls_from_html(html_content, base_url), the returned list as
\* a set (it is list(image_urls), in no particular order)
ExtractImageUrlsFromHtml(doc, base_url) == ExtractFromValid(ValidCandidates(doc), base_url)

(***************************************************************************)
(* Image Fetcher: download_image.  A response is [status, content_type,    *)
(* body]: status is "ok", "transport_error" (requests.get raised) or        *)
(* "http_error" (raise_for_status raised); content_type is the header as    *)
(* sent, "" when it is missing; body is [kind, width, height] with kind     *)
(* "image" (Image.open reads it), "undecodable" (Image.open raises) or     *)
(* "broken" (the stream raises while the file is being written).           *)
(* The outcome of a call is [ret, into, disk, gets]: the value returned,   *)
(* the set the URL is added to, the images folder afterwards, and the      *)
(* number of GET requests issued.                                          *)
(***************************************************************************)

\* self.images_folder, with the separator os.path.join adds
images_folder == "images/"

\* "if width < 10 or height < 10"
MinImageDim == 10

\* open(filepath, 'wb') and the writes: the file at path now holds this
WriteFile(disk, path, holds) ==
    {f \in disk : f.path # path} \cup {[path |-> path, holds |-> holds]}

\* os.remove(filepath)
RemoveFile(disk, path) == {f \in disk : f.path # path}

\* a response body: what it decodes as (an image of width x height, or not at
\* all), or a stream that breaks before its end
Body(kind, width, height) == [kind |-> kind, width |-> width, height |-> height]

\* a failure that returns None without recording the URL
FailureUnrecorded(disk, gets) == [ret |-> "None", into |-> "none", disk |-> disk, gets |-> gets]

\* "self.failed_images.add(image_url)" and "return None"
Failure(disk, gets) == [ret |-> "None", into |-> "failed", disk |-> disk, gets |-> gets]

\* the content-type test with every type let through
IsImageContentTypeAny(content_type) == TRUE

\* content_type.startswith('image/')
IsImageContentType(content_type) == StartsWith(content_type, "image/")

\* Image.open on the file just written, with the size test left out
VerifiedAnySize(filepath, body, disk) ==
    IF body.kind = "undecodable" THEN Failure(RemoveFile(disk, filepath), 1)
    ELSE [ret |-> filepath, into |-> "downloaded", disk |-> disk, gets |-> 1]

\* Image.open and the size test on the file just written
Verified(filepath, body, disk) ==
    IF body.kind = "undecodable" THEN Failure(RemoveFile(disk, filepath), 1)
    ELSE IF body.width < MinImageDim \/ body.height < MinImageDim
    THEN Failure(RemoveFile(disk, filepath), 1)
    ELSE [ret |-> filepath, into |-> "downloaded", disk |-> disk, gets |-> 1]

\* the body streamed to filepath; a stream that breaks leaves what was written
Saved(filepath, body, disk) ==
    IF body.kind = "broken" THEN Failure(WriteFile(disk, filepath, Body("partial", 0, 0)), 1)
    ELSE Verified(filepath, body, WriteFile(disk, filepath, body))

\* from the content-type test on; content_type is the lower-cased header
Received(image_url, content_type, body, disk, t) ==
    IF ~IsImageContentType(content_type) THEN Failure(disk, 1)
    ELSE Saved(images_folder \o GenerateImageFilename(image_url, content_type, t), body, disk)

\* requests.get and raise_for_status
Fetched(image_url, response, disk, t) ==
    IF response.status # "ok" THEN Failure(disk, 1)
    ELSE Received(image_url, Lower(response.content_type), response.body, disk, t)

\* how the call self._is_url_allowed(image_url) ends
PolicyVerdict(parser, image_url) ==
    IF IsUrlAllowedRaises(image_url) THEN "raised"
    ELSE IF IsUrlAllowed(parser, image_url) THEN "allowed" ELSE "denied"

\* download_image with the request made whatever the policy says
DownloadImageUnfiltered(verdict, image_url, response, disk, t) ==
    Fetched(image_url, response, disk, t)

\* download_image(image_url) when the policy gives verdict, the web answers
\* with response and the clock reads t: a denial and an exception of the
\* policy both end the call before any request
DownloadImageWith(verdict, image_url, response, disk, t) ==
    IF verdict # "allowed" THEN Failure(disk, 0)
    ELSE Fetched(image_url, response, disk, t)

\* what the call met: the policy, an error of the request, or a response
OutcomeKind(verdict, response) ==
    IF verdict # "allowed" THEN verdict
    ELSE IF response.status # "ok" THEN response.status
    ELSE "response"

\* the guard of the inner loop with failed_images left out
NotInDownloaded(image_url, downloaded, failed) == image_url \notin downloaded

\* the guard of the inner loop with downloaded_images left out
NotInFailed(image_url, downloaded, failed) == image_url \notin failed

\* "image_url not in self.downloaded_images and image_url not in self.failed_images"
NotYetAttempted(image_url, downloaded, failed) ==
    image_url \notin downloaded /\ image_url \notin failed

\* os.path.basename(downloaded_path)
Basename(path) == From(path, RFind(path, "/") + 1)

(***************************************************************************)
(* Text Segmenter: parse_faq_content_by_tabs.  A dict is a sequence of     *)
(* [tab, content] records in insertion order.                              *)
(***************************************************************************)

faq_categories ==
    <<"JioPay Business App", "JioPay Business Dashboard", "Collect link",
      "User Management", "Repeat", "Campaign", "Settlement", "Refunds",
      "Notifications", "Voicebox", "DQR", "Partner program", "P2PM">>

\* str.strip(), over the whitespace the texts carry
Strip(s) ==
    LET inner == {i \in 1..Len(s) : CharAt(s, i) \notin {" ", "\t", "\n"}}
    IN  IF inner = {} THEN ""
        ELSE SubSeq(s, CHOOSE i \in inner : \A j \in inner : i <= j,
                       CHOOSE i \in inner : \A j \in inner : j <= i)

\* the word of (What|How|Can|Do|Is|Why|Where|Who) that stands at i, "" if none
StarterAt(s, i) ==
    IF StartsWith(From(s, i), "What") THEN "What"
    ELSE IF StartsWith(From(s, i), "How") THEN "How"
    ELSE IF StartsWith(From(s, i), "Can") THEN "Can"
    ELSE IF StartsWith(From(s, i), "Do") THEN "Do"
    ELSE IF StartsWith(From(s, i), "Is") THEN "Is"
    ELSE IF StartsWith(From(s, i), "Why") THEN "Why"
    ELSE IF StartsWith(From(s, i), "Where") THEN "Where"
    ELSE IF StartsWith(From(s, i), "Who") THEN "Who"
    ELSE ""

\* a match of \s+(What|...|Who)\s+ whose first whitespace run ends before w
\* and whose word is word: the position after the match, 0 if there is none
StarterMatchEnd(s, w, word) ==
    IF word # "" /\ SkipSpace(s, w + Len(word)) > w + Len(word)
    THEN SkipSpace(s, w + Len(word)) ELSE 0

\* a match of the pattern at i: the position after it, 0 if there is none.
\*   "question_upper"  \?\s+(?=[A-Z])
\*   "question"        \?\s+
\*   "starter"         \s+(What|How|Can|Do|Is|Why|Where|Who)\s+
MatchEnd(pattern, s, i) ==
    IF pattern = "starter"
    THEN IF SkipSpace(s, i) > i
         THEN StarterMatchEnd(s, SkipSpace(s, i), StarterAt(s, SkipSpace(s, i))) ELSE 0
    ELSE IF CharAt(s, i) # "?" \/ SkipSpace(s, i + 1) = i + 1 THEN 0
    ELSE IF pattern = "question" THEN SkipSpace(s, i + 1)
    ELSE IF SkipSpace(s, i + 1) <= Len(s) /\ IsUpper(CharAt(s, SkipSpace(s, i + 1)))
    THEN SkipSpace(s, i + 1) ELSE 0

\* the leftmost match of the pattern at or after start, 0 if there is none
FirstMatch(pattern, s, start) ==
    LET hits == {i \in start..Len(s) : MatchEnd(pattern, s, i) > 0}
    IN  IF hits = {} THEN 0 ELSE CHOOSE i \in hits : \A j \in hits : i <= j

\* re.split(pattern, s) from start on, the next match being at i; the starter
\* pattern has a group, so its word is one of the pieces
RECURSIVE ReSplitAt(_, _, _, _)
ReSplitAt(pattern, s, start, i) ==
    IF i = 0 THEN <<From(s, start)>>
    ELSE <<SubSeq(s, start, i - 1)>>
         \o (IF pattern = "starter" THEN <<StarterAt(s, SkipSpace(s, i))>> ELSE <<>>)
         \o ReSplitAt(pattern, s, MatchEnd(pattern, s, i),
                      FirstMatch(pattern, s, MatchEnd(pattern, s, i)))

ReSplit(pattern, s) == ReSplitAt(pattern, s, 1, FirstMatch(pattern, s, 1))

\* re.findall(r'[A-Z][^?]*\?', s) from start on, q being the next '?' and
\* uppers the capital letters before it
RECURSIVE FindAllQuestionsAt(_, _, _)
FindAllQuestionsAt(s, start, q) ==
    IF q = 0 THEN <<>>
    ELSE (IF \E i \in start..(q - 1) : IsUpper(CharAt(s, i))
          THEN <<SubSeq(s, CHOOSE i \in start..(q - 1) :
                              /\ IsUpper(CharAt(s, i))
                              /\ \A j \in start..(i - 1) : ~IsUpper(CharAt(s, j)), q)>>
          ELSE <<>>)
         \o FindAllQuestionsAt(s, q + 1, FindFrom(s, "?", q + 1))

FindAllQuestions(s) == FindAllQuestionsAt(s, 1, Find(s, "?"))

\* tab_content[tab] = content
DictSet(dict, tab, content) ==
    IF \E k \in DOMAIN dict : dict[k].tab = tab
    THEN [k \in DOMAIN dict |->
             IF dict[k].tab = tab THEN [tab |-> tab, content |-> content] ELSE dict[k]]
    ELSE Append(dict, [tab |-> tab, content |-> content])

\* "text_parts.extend([category] + parts[1:])" for the categories from k on
\* that occur in the text
RECURSIVE CategoryParts(_, _)
CategoryParts(text, k) ==
    IF k > Len(faq_categories) THEN <<>>
    ELSE (IF Contains(text, faq_categories[k])
          THEN <<faq_categories[k]>> \o Tail(Split(text, faq_categories[k]))
          ELSE <<>>)
         \o CategoryParts(text, k + 1)

\* lines 828-844: the pieces the text is cut into
QuestionsOr(by_question, by_category, text) ==
    IF Len(by_question) >= 5 THEN by_question
    ELSE IF by_category # <<>> THEN by_category
    ELSE ReSplit("starter", text)

Questions(text) ==
    QuestionsOr(ReSplit("question_upper", text), CategoryParts(text, 1), text)

\* the first category that occurs in part, "" if none does
MatchedCategory(part) ==
    IF \E k \in DOMAIN faq_categories : Contains(part, faq_categories[k])
    THEN faq_categories[CHOOSE k \in DOMAIN faq_categories :
                            /\ Contains(part, faq_categories[k])
                            /\ \A j \in 1..(k - 1) : ~Contains(part, faq_categories[j])]
    ELSE ""

\* lines 877-882: the pieces of a category's content that are kept
RECURSIVE CategoryQuestions(_, _)
CategoryQuestions(pieces, k) ==
    IF k > Len(pieces) THEN <<>>
    ELSE (IF Len(Strip(pieces[k])) > 10
          THEN <<IF EndsWith(Strip(pieces[k]), "?") THEN Strip(pieces[k])
                 ELSE Strip(pieces[k]) \o "?">>
          ELSE <<>>)
         \o CategoryQuestions(pieces, k + 1)

\* the section at hand is saved if it has content
Flushed(acc) ==
    IF acc.content # <<>>
    THEN DictSet(acc.tabs, acc.section, Join(acc.content, "\n")) ELSE acc.tabs

\* the loop body keeping the uncategorised fragments of 10 characters too
OrganizedFromTen(acc, part, matched) ==
    IF matched # ""
    THEN [tabs |-> Flushed(acc), section |-> matched,
          content |-> CategoryQuestions(
                          ReSplit("question", From(part, Find(part, matched))), 1)]
    ELSE IF Len(part) >= 10
    THEN [acc EXCEPT !.content =
             Append(@, IF ~EndsWith(part, "?") /\ ~Contains(part, "?")
                       THEN part \o "?" ELSE part)]
    ELSE acc

\* lines 862-888 for one stripped, non-empty part whose category is matched
Organized(acc, part, matched) ==
    IF matched # ""
    THEN [tabs |-> Flushed(acc), section |-> matched,
          content |-> CategoryQuestions(
                          ReSplit("question", From(part, Find(part, matched))), 1)]
    ELSE IF Len(part) > 10
    THEN [acc EXCEPT !.content =
             Append(@, IF ~EndsWith(part, "?") /\ ~Contains(part, "?")
                       THEN part \o "?" ELSE part)]
    ELSE acc

\* the loop of lines 850-888 over questions[k..]
RECURSIVE OrganizeFrom(_, _, _)
OrganizeFrom(questions, k, acc) ==
    IF k > Len(questions) THEN acc
    ELSE OrganizeFrom(questions, k + 1,
             IF Strip(questions[k]) = "" THEN acc
             ELSE Organized(acc, Strip(questions[k]), MatchedCategory(Strip(questions[k]))))

\* "any(keyword.lower() in question.lower() for keyword in category.split())"
HasCategoryKeyword(question, category) ==
    \E keyword \in Range(Split(category, " ")) : Contains(Lower(question), Lower(keyword))

\* the questions of all_questions that test holds of, in order
RECURSIVE Chosen(_, _, _, _)
Chosen(all_questions, k, by, with) ==
    IF k > Len(all_questions) THEN <<>>
    ELSE (IF \/ by = "category" /\ HasCategoryKeyword(all_questions[k], with)
             \/ by = "remaining" /\ \A j \in DOMAIN with :
                                        ~Contains(with[j].content, all_questions[k])
          THEN <<all_questions[k]>> ELSE <<>>)
         \o Chosen(all_questions, k + 1, by, with)

\* lines 901-909: the questions grouped under the categories from k on
RECURSIVE Grouped(_, _, _)
Grouped(tabs, all_questions, k) ==
    IF k > Len(faq_categories) THEN tabs
    ELSE Grouped(IF Chosen(all_questions, 1, "category", faq_categories[k]) # <<>>
                 THEN DictSet(tabs, faq_categories[k],
                          Join(Chosen(all_questions, 1, "category", faq_categories[k]), "\n"))
                 ELSE tabs,
                 all_questions, k + 1)

\* lines 911-923: the questions no section holds go to General
WithRemaining(tabs, remaining) ==
    IF remaining # <<>> THEN DictSet(tabs, "General", Join(remaining, "\n")) ELSE tabs

\* lines 895-923
Regrouped(tabs, all_questions) ==
    IF Len(tabs) > 1 \/ all_questions = <<>> THEN tabs
    ELSE WithRemaining(Grouped(tabs, all_questions, 1),
             Chosen(all_questions, 1, "remaining", Grouped(tabs, all_questions, 1)))

\* the test of line 825 with every text taken for FAQ content
IsFaqContentAlways(text) == TRUE

\* "Frequently Asked Questions" in text_content or any(cat in text_content ...)
IsFaqContent(text) ==
    \/ Contains(text, "Frequently Asked Questions")
    \/ \E k \in DOMAIN faq_categories : Contains(text, faq_categories[k])

\* parse_faq_content_by_tabs(text_content) for a str
ParseFaqContentByTabs(text) ==
    IF IsFaqContent(text)
    THEN Regrouped(
             Flushed(OrganizeFrom(Questions(text), 1,
                         [tabs |-> <<>>, section |-> "General", content |-> <<>>])),
             FindAllQuestions(text))
    ELSE <<[tab |-> "General", content |-> text]>>

(***************************************************************************)
(* State.  pc is the point reached by the call in progress; arg and ret    *)
(* hold a call's argument and result; now is the clock.  The other         *)
(* variables are the scraper object's fields, the images folder, the       *)
(* locals of extract_and_download_images, and a record of the calls made.  *)
(***************************************************************************)
VARIABLES
    pc, now, arg, ret,
    robots_parser, crawled_urls, failed_urls, downloaded_images, failed_images,
    images_disk,             \* the files of the images folder: [path, holds]
    html_files,              \* the html_files given to extract_and_download_images
    files_left,              \* the files the outer loop is not through with, the one at hand first
    image_urls,              \* URLs of the file at hand the inner loop has not reached
    downloaded_images_info,  \* the list extract_and_download_images returns
    attempts,                \* the extract loop's download_image calls: [url, calls, gets]
    direct_calls,            \* direct download_image calls made so far
    direct_retries,          \* URLs passed to a direct call when already recorded
    ncalls,                  \* download_image calls made so far
    last_call,               \* the latest download_image call and what it met
    environ,                 \* os.environ's FIRECRAWL_API_KEY: [set, value]
    event,                   \* the event lambda_handler is invoked with
    max_pages,               \* the max_pages the handler takes from the event
    built,                   \* a FirecrawlLambdaScraper has been constructed
    dirs,                    \* the directories made so far
    robots_fetches,          \* robots.txt fetches made so far
    crawl_calls,             \* the crawl calls made so far: [url, limit]
    crawl_data,              \* the page records the crawls returned, combined
    page_i,                  \* pages save_html_files is through with
    html_disk,               \* the files of the html folder: [path, holds]
    text_disk,               \* the files of the text folder: [path, holds]
    processed_files,         \* the list process_html_files_with_tab_organization builds
    returned                 \* what lambda_handler returned

crawl_state == <<robots_parser, crawled_urls, failed_urls, downloaded_images, failed_images>>

extract_locals == <<html_files, files_left, image_urls, downloaded_images_info>>

call_record == <<attempts, direct_calls, direct_retries, ncalls, last_call>>

run_state ==
    <<environ, event, max_pages, built, dirs, robots_fetches, crawl_calls, crawl_data, page_i,
      html_disk, text_disk, processed_files, returned>>

vars ==
    <<pc, now, arg, ret, crawl_state, images_disk, extract_locals, call_record, run_state>>

\* self.base_url
base_url == "https://jiopay.com"

(***************************************************************************)
(* Bounds of the model.                                                    *)
(***************************************************************************)

\* the clock starts at 09:59:58 and is read for at most MaxTicks seconds more
ClockStart == 35998
MaxTicks == 1

\* at most this many elements in a document given to the Image Discoverer
MaxDocLen == 2

\* at most this many HTML files given to extract_and_download_images
MaxFiles == 2

\* at most this many direct download_image calls in one behaviour
MaxDirectCalls == 1

Clock == ClockStart..(ClockStart + MaxTicks)

\* sequences over S of length lo..hi
SeqsBetween(S, lo, hi) == UNION {[1..n -> S] : n \in lo..hi}

\* robots.txt outcomes: the fetch failed (None), no directive, some
\* directives, everything disallowed
RobotsParsers ==
    { NoParser,
      [loaded |-> TRUE, disallow |-> {}],
      [loaded |-> TRUE, disallow |-> {"/business/private", "/img/hero"}],
      [loaded |-> TRUE, disallow |-> {"/"}] }

\* the state __init__ leaves, with the parser _setup_robots_compliance got
Constructed(parser) ==
    /\ robots_parser = parser
    /\ crawled_urls = {}
    /\ failed_urls = {}
    /\ downloaded_images = {}
    /\ failed_images = {}

\* no extract_and_download_images call and no download_image call yet
NoCallsYet ==
    /\ html_files = <<>>
    /\ files_left = <<>>
    /\ image_urls = {}
    /\ downloaded_images_info = <<>>
    /\ attempts = {}
    /\ direct_calls = 0
    /\ direct_retries = {}
    /\ ncalls = 0
    /\ last_call = [url |-> "", via |-> "none", outcome |-> "none", content_type |-> "",
                    body |-> Body("none", 0, 0), gets |-> 0]

\* no lambda_handler run: nothing invoked, built, crawled or written by one
NoRunYet ==
    /\ environ = [set |-> FALSE, value |-> ""]
    /\ event = [kind |-> "none", has_max_pages |-> FALSE, max_pages |-> 0]
    /\ max_pages = 0
    /\ built = FALSE
    /\ dirs = {}
    /\ robots_fetches = 0
    /\ crawl_calls = <<>>
    /\ crawl_data = <<>>
    /\ page_i = 0
    /\ text_disk = {}
    /\ processed_files = <<>>
    /\ returned = [statusCode |-> 0]

\* the clock moves on between two steps
Tick ==
    /\ now < ClockStart + MaxTicks
    /\ now' = now + 1
    /\ UNCHANGED <<run_state, pc, arg, ret, crawl_state, images_disk, extract_locals, call_record>>

(***************************************************************************)
(* Policy Filter called on its own.                                        *)
(***************************************************************************)

PolicyUrls ==
    {s \o h \o p \o q :
        s \in {"https://", "http://"},
        h \in {"jiopay.com", "www.jiopay.com", "JioPay.com", "jiopay.com.evil.net",
               "notjiopay.com", "evil.test", "user@jiopay.com:8443"},
        p \in {"", "/business", "/business/help-center", "/account/settings", "/Login",
               "/img/logo.png", "/business/private/x", "/authors", "/img/hero.webp"},
        q \in {"", "?page=2", "?TOKEN=abc", "?next=home#login"}}

\* two states of the URL bookkeeping a call can find: fresh, and mid-run
FreshSets == [crawled |-> {}, failed |-> {}, downloaded |-> {}, failed_img |-> {}]
MidRunSets ==
    [crawled |-> {"https://jiopay.com/business", "https://jiopay.com/account/settings"},
     failed |-> {"https://jiopay.com/account/settings"},
     downloaded |-> {"https://jiopay.com/img/logo.png"},
     failed_img |-> {"https://cdn.example.com/b.jpg"}]

InitPolicy ==
    /\ pc = "call"
    /\ now = ClockStart
    /\ arg \in PolicyUrls
    /\ ret = "none"
    /\ robots_parser \in RobotsParsers
    /\ \E sets \in {FreshSets, MidRunSets} :
          /\ crawled_urls = sets.crawled
          /\ failed_urls = sets.failed
          /\ downloaded_images = sets.downloaded
          /\ failed_images = sets.failed_img
    /\ images_disk = {}
    /\ html_disk = {}
    /\ NoRunYet
    /\ NoCallsYet

\* a call that records the URL it denies in failed_urls
IsUrlAllowedCallRecording ==
    /\ pc = "call"
    /\ pc' = "return"
    /\ ret' = IF IsUrlAllowedRaises(arg) THEN "raise"
              ELSE IF IsUrlAllowed(robots_parser, arg) THEN "True" ELSE "False"
    /\ failed_urls' = IF ret' = "False" THEN failed_urls \cup {arg} ELSE failed_urls
    /\ UNCHANGED <<run_state, now, arg, robots_parser, crawled_urls, downloaded_images,
                   failed_images,
                   images_disk, extract_locals, call_record>>

\* one call _is_url_allowed(arg): "True", "False", or "raise"
IsUrlAllowedCall ==
    /\ pc = "call"
    /\ pc' = "return"
    /\ ret' = IF IsUrlAllowedRaises(arg) THEN "raise"
              ELSE IF IsUrlAllowed(robots_parser, arg) THEN "True" ELSE "False"
    /\ UNCHANGED <<run_state, now, arg, crawl_state, images_disk, extract_locals, call_record>>

NextPolicy == IsUrlAllowedCall

SpecPolicy == InitPolicy /\ [][NextPolicy]_vars

\* the URL's host as the URL writes it: the netloc without the user
\* information before '@' and without the port after ':'
HostOfHostinfo(hostinfo, colon) ==
    IF colon > 0 THEN SubSeq(hostinfo, 1, colon - 1) ELSE hostinfo

HostOfNetloc(netloc, at) ==
    HostOfHostinfo(From(netloc, at + 1), Find(From(netloc, at + 1), ":"))

Hostname(url) == HostOfNetloc(UrlParse(url).netloc, RFind(UrlParse(url).netloc, "@"))

\* a denylist keyword occurs in one of two strings
KeywordIn(path, query) ==
    \E keyword \in GatedKeywords : Contains(path, keyword) \/ Contains(query, keyword)

\* a denylist keyword occurs in the URL's lower-cased path or query
GatedUrl(url) == KeywordIn(Lower(UrlParse(url).path), Lower(UrlParse(url).query))

\* the robots term: TRUE without a loaded parser, else what the parser says
RobotsTerm(parser, url) == ~parser.loaded \/ CanFetch(parser, url) = "allow"

\* C3: a URL whose lower-cased path or query contains a denylist keyword is
\* never allowed, whatever the robots directives and the host are.
C3_GatedUrlDenied == pc = "return" /\ GatedUrl(arg) => ret = "False"

\* C3's case: only the keyword stands against the URL (allowed host, no robots
\* parser), and the call returned False
C3_Witness ==
    /\ pc = "return"
    /\ arg = "https://jiopay.com/business?TOKEN=abc"
    /\ ~robots_parser.loaded
    /\ ret = "False"

\* C4: a URL whose host is not one of the allowed domains is never allowed.
C4_ForeignHostDenied == pc = "return" /\ Hostname(arg) \notin allowed_domains => ret = "False"

\* C5: the result is exactly (robots allows) AND (host in allow-list) AND (no
\* denylist keyword), the robots term being TRUE when no parser is loaded.
C5_ResultIsConjunction ==
    pc = "return" =>
        (ret = "True" <=> /\ RobotsTerm(robots_parser, arg)
                          /\ Hostname(arg) \in allowed_domains
                          /\ ~GatedUrl(arg))

\* C6: a call to _is_url_allowed changes none of crawled_urls, failed_urls,
\* downloaded_images, failed_images and robots_parser.
C6_PolicyCallKeepsState == [][pc = "call" /\ pc' = "return" => UNCHANGED crawl_state]_vars

\* C6's case: a call that denied its URL has returned, the sets being populated
C6_Witness ==
    /\ pc = "return"
    /\ ret = "False"
    /\ robots_parser.loaded
    /\ failed_urls = MidRunSets.failed
    /\ downloaded_images = MidRunSets.downloaded


(***************************************************************************)
(* Filename Deriver called on its own.                                     *)
(***************************************************************************)

FilenameUrls ==
    {s \o b :
        s \in {"https://", "http://", "ftp://", ""},
        b \in {"jiopay.com/business", "jiopay.com/business/help-center",
               "www.jiopay.com/a_b?x=1&y=2", "jiopay.com/redirect?to=https://jiopay.com/x",
               "jiopay.com/page_0", "JioPay.com/FAQ/Q-1.html#top",
               "jiopay.com/" \o Repeat("a", 88), "jiopay.com/" \o Repeat("a", 89),
               "jiopay.com/" \o Repeat("a", 90),
               "jiopay.com/business/help-center/" \o Repeat("faq-", 20)}}

InitFilename ==
    /\ pc = "call"
    /\ now \in Clock
    /\ arg \in [url : FilenameUrls, extension : {"html", "txt"}]
    /\ ret = ""
    /\ Constructed(NoParser)
    /\ images_disk = {}
    /\ html_disk = {}
    /\ NoRunYet
    /\ NoCallsYet

\* one call _generate_filename(arg.url, arg.extension)
GenerateFilenameCall ==
    /\ pc = "call"
    /\ pc' = "return"
    /\ ret' = GenerateFilename(arg.url, arg.extension, now)
    /\ UNCHANGED <<run_state, now, arg, crawl_state, images_disk, extract_locals, call_record>>

NextFilename == GenerateFilenameCall

SpecFilename == InitFilename /\ [][NextFilename]_vars

\* the suffix every page filename ends with: '_', the timestamp, '.', extension
NameSuffix(extension, t) == "_" \o Timestamp(t) \o "." \o extension

\* r is s with every character outside Keep replaced by '_'
IsCleaned(r, s, Keep(_)) ==
    /\ Len(r) = Len(s)
    /\ \A i \in 1..Len(s) :
          CharAt(r, i) = IF Keep(CharAt(s, i)) THEN CharAt(s, i) ELSE "_"

IsAlnum(c) == IsLower(c) \/ IsUpper(c) \/ IsDigit(c)

IsAlnumOrUnderscoreOrHyphen(c) == IsAlnum(c) \/ c = "_" \/ c = "-"

\* the URL without its leading http:// or https://
WithoutLeadingScheme(url) ==
    IF StartsWith(url, "https://") THEN From(url, 9)
    ELSE IF StartsWith(url, "http://") THEN From(url, 8)
    ELSE url

\* name is the first 100 characters at most of w, cleaned with Keep, and the
\* file name is name followed by the suffix
IsFilenameOf(filename, w, Keep(_), extension, t) ==
    /\ Len(filename) = Len(Take(w, MaxNameLen)) + Len(NameSuffix(extension, t))
    /\ IsCleaned(Take(filename, Len(Take(w, MaxNameLen))), Take(w, MaxNameLen), Keep)
    /\ From(filename, Len(Take(w, MaxNameLen)) + 1) = NameSuffix(extension, t)

\* C7 as stated: the scheme is stripped, every non-alphanumeric character
\* becomes '_', the result is cut to 100 characters, and '_', the timestamp,
\* '.' and the extension follow.
C7_FilenameAsClaimed ==
    pc = "return" =>
        IsFilenameOf(ret, WithoutLeadingScheme(arg.url), IsAlnum, arg.extension, now)

\* C7 amended: every occurrence of http:// or https:// is removed, every
\* character other than an ASCII letter, a digit, '_' and '-' becomes '_', the
\* result is cut to 100 characters, and '_', the timestamp, '.' and the
\* extension follow.
C7_FilenameAmended ==
    pc = "return" =>
        IsFilenameOf(ret, StripSchemes(arg.url), IsAlnumOrUnderscoreOrHyphen,
                     arg.extension, now)

\* C7's case: a URL with hyphens, longer than 100 characters once cleaned,
\* gets a name of exactly 100 characters that keeps the hyphens
C7_Witness ==
    /\ pc = "return"
    /\ arg.url = "https://jiopay.com/business/help-center/" \o Repeat("faq-", 20)
    /\ Len(ret) = MaxNameLen + Len(NameSuffix(arg.extension, now))
    /\ Contains(ret, "help-center")


(***************************************************************************)
(* Image Discoverer called on its own.                                     *)
(***************************************************************************)

Element(tag, src, data_src, style) ==
    [tag |-> tag, src |-> src, data_src |-> data_src, style |-> style]

\* <img src="/a.png"><img data-src="//cdn.example.com/b.jpg">
\* <div style="background-image:url('https://x.test/c.webp')">
ExampleDoc ==
    <<Element("img", "/a.png", "", ""),
      Element("img", "", "//cdn.example.com/b.jpg", ""),
      Element("div", "", "", "background-image:url('https://x.test/c.webp')")>>

Elements ==
    Range(ExampleDoc) \cup
    {Element("img", "tracking-1x1-pixel.gif", "data:image/png;base64,iVBOR", ""),
     Element("img", "assets/Logo.PNG", "/a.png", "background-image: url(\"../img/bg\")"),
     Element("div", "/hidden.png", "", "color:red; background-image:url(/Photo/1PX.jpg)"),
     Element("img", "x://[abc/img.png", "", ""),
     Element("img", "https://site.test/a.png", "DATA:image/gif;base64,R0", ""),
     Element("img", "/docs/readme.txt", "http://x.test/picture?id=7", ""),
     Element("div", "", "", "background-image:url(one.png);background-image:url(/img/two)")}

Docs == SeqsBetween(Elements, 0, MaxDocLen) \cup {ExampleDoc}

DiscoverBases ==
    {"https://site.test", base_url, "https://jiopay.com/business/help-center"}

InitDiscover ==
    /\ pc = "call"
    /\ now = ClockStart
    /\ arg \in [doc : Docs, base_url : DiscoverBases]
    /\ ret = {}
    /\ Constructed(NoParser)
    /\ images_disk = {}
    /\ html_disk = {}
    /\ NoRunYet
    /\ NoCallsYet

\* one call extract_image_urls_from_html(arg.doc, arg.base_url)
ExtractImageUrlsCall ==
    /\ pc = "call"
    /\ pc' = "return"
    /\ ret' = ExtractImageUrlsFromHtml(arg.doc, arg.base_url)
    /\ UNCHANGED <<run_state, now, arg, crawl_state, images_disk, extract_locals, call_record>>

NextDiscover == ExtractImageUrlsCall

SpecDiscover == InitDiscover /\ [][NextDiscover]_vars

\* the candidate strings of a document: img src, img data-src, and the
\* url(...) values of inline background-image styles
Candidates(doc) ==
    {doc[i].src : i \in {j \in DOMAIN doc : doc[j].tag = "img"}}
    \cup {doc[i].data_src : i \in {j \in DOMAIN doc : doc[j].tag = "img"}}
    \cup UNION {Range(bg_matches(doc[i].style)) : i \in DOMAIN doc}

\* empty, a data: URI, or holding a tracking marker in any letter case
Rejectable(c) ==
    \/ c = ""
    \/ StartsWith(c, "data:")
    \/ \E m \in {"1x1", "1px", "pixel"} : Contains(Lower(c), m)

\* ends in an image extension or holds an image-hint keyword
LooksLikeImage(c) ==
    \/ \E x \in {".jpg", ".jpeg", ".png", ".gif", ".webp", ".svg", ".bmp"} :
           EndsWith(Lower(c), x)
    \/ \E k \in {"image", "img", "photo", "picture"} : Contains(Lower(c), k)

Accepted(doc) == {c \in Candidates(doc) : ~Rejectable(c) /\ LooksLikeImage(c)}

IsAbsoluteHttp(c) == StartsWith(c, "http://") \/ StartsWith(c, "https://")

\* the absolute form of a candidate
Normalised(c, base) ==
    IF StartsWith(c, "//") THEN "https:" \o c
    ELSE IF IsAbsoluteHttp(c) THEN c
    ELSE UrlJoin(base, c)

\* resolving the candidate against the base fails
ResolutionFails(c, base) ==
    ~StartsWith(c, "//") /\ ~IsAbsoluteHttp(c) /\ UrlJoinRaises(base, c)

ExampleResult ==
    {"https://site.test/a.png", "https://cdn.example.com/b.jpg", "https://x.test/c.webp"}

ExampleHolds ==
    arg.doc = ExampleDoc /\ arg.base_url = "https://site.test" => ret = ExampleResult

\* C8 as stated: the result is exactly the set of accepted candidates, each in
\* absolute form, and the three-element example gives the three URLs.
C8_ExactlyAcceptedAsClaimed ==
    pc = "return" =>
        /\ ret = {Normalised(c, arg.base_url) : c \in Accepted(arg.doc)}
        /\ ExampleHolds

\* C8 amended: when no accepted candidate fails to resolve against base_url,
\* the result is exactly the set of accepted candidates, each in absolute
\* form; when one fails to resolve, the result is empty; the three-element
\* example gives the three URLs.
C8_ExactlyAcceptedAmended ==
    pc = "return" =>
        /\ ret = IF \E c \in Accepted(arg.doc) : ResolutionFails(c, arg.base_url)
                 THEN {}
                 ELSE {Normalised(c, arg.base_url) : c \in Accepted(arg.doc)}
        /\ ExampleHolds

\* C8's case: the call on the three-element example has returned the three URLs
C8_Witness ==
    /\ pc = "return"
    /\ arg.doc = ExampleDoc
    /\ arg.base_url = "https://site.test"
    /\ ret = ExampleResult

html_folder == "html/"

\* the path save_html_files gives the page at page_url
HtmlPath(page_url) == html_folder \o GenerateFilename(page_url, "html", ClockStart)

HomeFile == HtmlPath("https://jiopay.com")
BusinessFile == HtmlPath("https://jiopay.com/business")

SiteFiles == {HomeFile, BusinessFile}

\* the HTML documents of the site's pages, by name: the home page, the
\* business page, and a page of questions without images
SiteHtml == {"home", "business", "faq"}

\* what open(html_file).read() gives for a file that holds the document, as
\* parsed
FileContent(html) ==
    IF html = "home"
    THEN <<Element("img", "/img/hero.png", "", ""),
           Element("img", "https://cdn.evil.test/banner.jpg", "", "")>>
    ELSE IF html = "business"
    THEN <<Element("img", "/img/hero.png", "//www.jiopay.com/img/logo.svg", ""),
           Element("img", "tracking-1x1-pixel.gif", "//[jiopay.com/img/x.png", "")>>
    ELSE <<Element("div", "", "", "")>>

\* what extract_image_urls_from_html returns for each document of the site
SiteImageUrlsOf ==
    [html \in SiteHtml |-> ExtractImageUrlsFromHtml(FileContent(html), base_url)]

SiteImageUrls == UNION {SiteImageUrlsOf[html] : html \in SiteHtml}

\* the file at path, for a path the folder has a file at
FileAt(disk, path) == CHOOSE f \in disk : f.path = path

\* no request is made, so no response comes
NoResponse == [status |-> "none", content_type |-> "", body |-> Body("none", 0, 0)]

Responses ==
    {[status |-> s, content_type |-> "", body |-> Body("none", 0, 0)] :
        s \in {"transport_error", "http_error"}}
    \cup {[status |-> "ok", content_type |-> c, body |-> b] :
            c \in {"text/html", "", "Image/PNG"},
            b \in {Body("image", MinImageDim, MinImageDim),
                   Body("image", MinImageDim - 1, 480), Body("image", 640, MinImageDim - 1),
                   Body("undecodable", 0, 0), Body("broken", 0, 0)}}

\* the answers the web may give to the request of a call
ResponsesMet(verdict) == IF verdict = "allowed" THEN Responses ELSE {NoResponse}

\* robots.txt outcomes of the runs: the fetch failed, or some directives
FetcherParsers == {parser \in RobotsParsers : ~parser.loaded \/ "/img/hero" \in parser.disallow}

\* how _is_url_allowed ends on each image URL of the site, under each parser
SiteVerdicts ==
    [parser \in FetcherParsers |->
        [image_url \in SiteImageUrls |-> PolicyVerdict(parser, image_url)]]

InitFetcher ==
    /\ pc = "idle"
    /\ now = ClockStart
    /\ arg = ""
    /\ ret = "None"
    /\ \E parser \in FetcherParsers : Constructed(parser)
    /\ images_disk = {}
    /\ html_disk = {[path |-> HomeFile, holds |-> "home"],
                    [path |-> BusinessFile, holds |-> "business"]}
    /\ NoRunYet
    /\ html_files \in SeqsBetween(SiteFiles, 0, MaxFiles)
    /\ files_left = <<>>
    /\ image_urls = {}
    /\ downloaded_images_info = <<>>
    /\ attempts = {}
    /\ direct_calls = 0
    /\ direct_retries = {}
    /\ ncalls = 0
    /\ last_call = [url |-> "", via |-> "none", outcome |-> "none", content_type |-> "",
                    body |-> Body("none", 0, 0), gets |-> 0]

\* the record of the loop's calls with one more call for image_url
Attempted(log, image_url, gets) ==
    IF \E a \in log : a.url = image_url
    THEN {IF a.url = image_url
          THEN [url |-> a.url, calls |-> a.calls + 1, gets |-> a.gets + gets]
          ELSE a : a \in log}
    ELSE log \cup {[url |-> image_url, calls |-> 1, gets |-> gets]}

\* the effect of download_image(image_url) on the object and the folder, out
\* being the outcome of the call
DownloadImageEffect(image_url, via, outcome, response, out) ==
    /\ ret' = out.ret
    /\ downloaded_images' = IF out.into = "downloaded"
                            THEN downloaded_images \cup {image_url} ELSE downloaded_images
    /\ failed_images' = IF out.into = "failed"
                        THEN failed_images \cup {image_url} ELSE failed_images
    /\ images_disk' = out.disk
    /\ ncalls' = ncalls + 1
    /\ last_call' = [url |-> image_url, via |-> via, outcome |-> outcome,
                     content_type |-> response.content_type, body |-> response.body,
                     gets |-> out.gets]
    /\ attempts' = IF via = "loop" THEN Attempted(attempts, image_url, out.gets)
                   ELSE attempts
    /\ UNCHANGED <<run_state, robots_parser, crawled_urls, failed_urls>>

\* one call download_image(image_url), the policy giving verdict
DownloadImageCall(image_url, via, verdict) ==
    \E response \in ResponsesMet(verdict) :
        DownloadImageEffect(image_url, via, OutcomeKind(verdict, response), response,
            DownloadImageWith(verdict, image_url, response, images_disk, now))

\* extract_and_download_images(html_files) is entered
ExtractStart ==
    /\ pc = "idle"
    /\ pc' = "files"
    /\ files_left' = html_files
    /\ image_urls' = {}
    /\ downloaded_images_info' = <<>>
    /\ UNCHANGED <<run_state, now, arg, ret, crawl_state, images_disk, html_files, call_record>>

\* the outer loop takes the next file: it is read and its image URLs extracted
ExtractReadFile ==
    /\ pc = "files"
    /\ files_left # <<>>
    /\ pc' = "images"
    /\ \E f \in html_disk : f.path = Head(files_left)
    /\ image_urls' = SiteImageUrlsOf[FileAt(html_disk, Head(files_left)).holds]
    /\ UNCHANGED <<run_state, now, arg, ret, crawl_state, images_disk, html_files, files_left,
                   downloaded_images_info, call_record>>

\* the file cannot be read: the exception leaves extract_and_download_images
ExtractReadFails ==
    /\ pc = "files"
    /\ files_left # <<>>
    /\ pc' = "raised"
    /\ UNCHANGED <<run_state, now, arg, ret, crawl_state, images_disk, extract_locals, call_record>>

\* the inner loop reaches a URL already in one of the two sets
ImageSkip ==
    /\ pc = "images"
    /\ \E image_url \in image_urls :
          /\ ~NotYetAttempted(image_url, downloaded_images, failed_images)
          /\ image_urls' = image_urls \ {image_url}
    /\ UNCHANGED <<run_state, pc, now, arg, ret, crawl_state, images_disk, html_files, files_left,
                   downloaded_images_info, call_record>>

\* the entry appended for a downloaded image
ImageInfo(html_file, image_url, downloaded_path) ==
    [source_html |-> html_file, image_url |-> image_url,
     local_path |-> downloaded_path, filename |-> Basename(downloaded_path)]

\* the inner loop reaches a URL in neither set and calls download_image
ImageDownload ==
    /\ pc = "images"
    /\ \E image_url \in image_urls :
          /\ NotYetAttempted(image_url, downloaded_images, failed_images)
          /\ DownloadImageCall(image_url, "loop", SiteVerdicts[robots_parser][image_url])
          /\ image_urls' = image_urls \ {image_url}
          /\ downloaded_images_info' =
                 IF ret' # "None"
                 THEN Append(downloaded_images_info,
                             ImageInfo(Head(files_left), image_url, ret'))
                 ELSE downloaded_images_info
    /\ UNCHANGED <<pc, now, arg, html_files, files_left, direct_calls, direct_retries>>

\* the inner loop is through with the file
ImageLoopEnd ==
    /\ pc = "images"
    /\ image_urls = {}
    /\ pc' = "files"
    /\ files_left' = Tail(files_left)
    /\ UNCHANGED <<run_state, now, arg, ret, crawl_state, images_disk, html_files, image_urls,
                   downloaded_images_info, call_record>>

\* the outer loop is through: downloaded_images_info is returned
ExtractReturn ==
    /\ pc = "files"
    /\ files_left = <<>>
    /\ pc' = "done"
    /\ UNCHANGED <<run_state, now, arg, ret, crawl_state, images_disk, extract_locals, call_record>>

\* the URLs given to direct calls: one the two files share, one of a foreign host
DirectUrls == {"https://jiopay.com/img/hero.png", "https://cdn.evil.test/banner.jpg"}

\* download_image(image_url) called from outside extract_and_download_images
DirectDownload ==
    /\ pc \in {"idle", "done"}
    /\ direct_calls < MaxDirectCalls
    /\ \E image_url \in DirectUrls :
          /\ DownloadImageCall(image_url, "direct", SiteVerdicts[robots_parser][image_url])
          /\ arg' = image_url
          /\ direct_retries' =
                 IF image_url \in downloaded_images \cup failed_images
                 THEN direct_retries \cup {image_url} ELSE direct_retries
    /\ direct_calls' = direct_calls + 1
    /\ UNCHANGED <<pc, now, extract_locals>>

NextFetcher ==
    \/ ExtractStart
    \/ ExtractReadFile
    \/ ExtractReadFails
    \/ ImageSkip
    \/ ImageDownload
    \/ ImageLoopEnd
    \/ ExtractReturn
    \/ DirectDownload
    \/ Tick

SpecFetcher == InitFetcher /\ [][NextFetcher]_vars

HeroUrl == "https://jiopay.com/img/hero.png"

\* C1 as stated: no image URL is in both downloaded_images and failed_images,
\* whatever download_image calls were made, directly or by the extract loop.
C1_NeverInBothAsClaimed == downloaded_images \cap failed_images = {}

\* C1 amended: an image URL is in both downloaded_images and failed_images
\* only if download_image was called directly on it when it was already in
\* one of the two; the calls extract_and_download_images makes never put a
\* URL in both.
C1_InBothOnlyByDirectRetry == downloaded_images \cap failed_images \subseteq direct_retries

\* C1's case: the extract loop has run over two files, a direct call has
\* repeated one of its URLs and put it in both sets, and the URLs the loop
\* alone attempted are in one set each
C1_Witness ==
    /\ pc = "done"
    /\ Len(html_files) = 2
    /\ direct_retries # {}
    /\ downloaded_images \cap failed_images = direct_retries
    /\ \E a \in attempts : a.url \notin direct_retries

\* C2: every download_image call extract_and_download_images makes is the
\* first it makes for that URL, issues at most one GET, and is for a URL that
\* is in neither downloaded_images nor failed_images when the call is made.
C2_OneAttemptPerUrl ==
    [][\A a \in attempts' \ attempts :
          /\ a.calls = 1
          /\ a.gets <= 1
          /\ a.url \notin downloaded_images \cup failed_images]_vars

\* C2's case: two files share an image URL, its download failed in the first
\* file, and the loop is through both files with one call made for it
C2_Witness ==
    /\ pc = "done"
    /\ html_files = <<HomeFile, BusinessFile>>
    /\ direct_calls = 0
    /\ HeroUrl \in failed_images
    /\ [url |-> HeroUrl, calls |-> 1, gets |-> 1] \in attempts

\* a download_image call is made in this step and receives a response
ResponseReceived == ncalls' = ncalls + 1 /\ last_call'.outcome = "response"

\* the call of this step returns None, records its URL in failed_images and
\* leaves the images folder as it was
FailsWithoutFile ==
    /\ ret' = "None"
    /\ last_call'.url \in failed_images'
    /\ images_disk' = images_disk

\* C10 as stated: a response whose content-type header does not start with
\* 'image/' makes download_image return None, record the URL in failed_images
\* and create no file.
C10_NonImageFailsAsClaimed ==
    [][ResponseReceived /\ ~StartsWith(last_call'.content_type, "image/")
          => FailsWithoutFile]_vars

\* C10 amended: a response whose content-type header, lower-cased, does not
\* start with 'image/' (text/html, a missing header) makes download_image
\* return None, record the URL in failed_images and create no file.
C10_NonImageFailsAmended ==
    [][ResponseReceived /\ ~StartsWith(Lower(last_call'.content_type), "image/")
          => FailsWithoutFile]_vars

\* C10's case: the extract loop's call for an allowed URL has received a
\* text/html response, returned None and recorded the URL, the folder empty
C10_Witness ==
    /\ last_call.via = "loop"
    /\ last_call.outcome = "response"
    /\ last_call.content_type = "text/html"
    /\ ret = "None"
    /\ last_call.url \in failed_images
    /\ images_disk = {}

\* the path of the file the download_image call of this step writes to
CallPath ==
    images_folder
    \o GenerateImageFilename(last_call'.url, Lower(last_call'.content_type), now)

\* the download_image call of this step has written a body that decodes as
\* an image of width below 10 or height below 10
TinyImageWritten ==
    /\ ResponseReceived
    /\ StartsWith(Lower(last_call'.content_type), "image/")
    /\ last_call'.body.kind = "image"
    /\ (last_call'.body.width < 10 \/ last_call'.body.height < 10)

\* C11: when download_image has written a body that decodes as an image of
\* width below 10 or height below 10, it deletes the written file, adds the
\* URL to failed_images, does not add it to downloaded_images and returns
\* None.
C11_TinyImageDeleted ==
    [][TinyImageWritten =>
          /\ \A f \in images_disk' : f.path # CallPath
          /\ last_call'.url \in failed_images'
          /\ downloaded_images' = downloaded_images
          /\ ret' = "None"]_vars

\* C11's case: the extract loop's call got a 9x480 image under an image
\* content type; it returned None, the URL is in failed_images only and the
\* images folder holds no file
C11_Witness ==
    /\ last_call.via = "loop"
    /\ last_call.outcome = "response"
    /\ last_call.content_type = "Image/PNG"
    /\ last_call.body = Body("image", 9, 480)
    /\ ret = "None"
    /\ last_call.url \in failed_images \ downloaded_images
    /\ images_disk = {}

\* the download_image call of this step is for a URL _is_url_allowed denies
DeniedUrlCalled ==
    /\ ncalls' = ncalls + 1
    /\ SiteVerdicts[robots_parser][last_call'.url] = "denied"

\* C12: for every image URL that _is_url_allowed denies, download_image
\* issues no HTTP GET and writes no file, adds the URL to failed_images and
\* returns None.
C12_DeniedBeforeNetwork ==
    [][DeniedUrlCalled =>
          /\ last_call'.gets = 0
          /\ images_disk' = images_disk
          /\ last_call'.url \in failed_images'
          /\ ret' = "None"]_vars

\* C12's case: after an image was saved, the extract loop called
\* download_image on a URL of a foreign host: no GET, the folder as before
C12_Witness ==
    /\ last_call.via = "loop"
    /\ last_call.url = "https://cdn.evil.test/banner.jpg"
    /\ SiteVerdicts[robots_parser][last_call.url] = "denied"
    /\ last_call.gets = 0
    /\ ret = "None"
    /\ last_call.url \in failed_images
    /\ HeroUrl \in downloaded_images
    /\ Cardinality(images_disk) = 1

\* path names a file of the folder that decoded as an image of width >= 10
\* and height >= 10
ValidFileIn(disk, path) ==
    \E f \in disk :
        /\ f.path = path
        /\ f.holds.kind = "image"
        /\ f.holds.width >= 10
        /\ f.holds.height >= 10

\* C13: each path download_image returns names, when it is returned, a file
\* on disk that decoded as an image of width >= 10 and height >= 10; and in
\* every state the file each downloaded-images record lists is still there
\* and still that image, whatever the loop fetched later.  (A record whose
\* URL was passed to download_image again from outside the loop is not of
\* the run's own making and is left out.)
C13_SuccessFilesStay ==
    /\ [][ncalls' = ncalls + 1 /\ ret' # "None" => ValidFileIn(images_disk', ret')]_vars
    /\ [](\A i \in DOMAIN downloaded_images_info :
             downloaded_images_info[i].image_url \notin direct_retries
                 => ValidFileIn(images_disk, downloaded_images_info[i].local_path))

\* C13's case: the loop saved one image, then fetched another URL whose body
\* was a 640x9 image, written and deleted; the first file is still valid
C13_Witness ==
    /\ direct_calls = 0
    /\ Len(downloaded_images_info) = 1
    /\ downloaded_images_info[1].image_url = HeroUrl
    /\ last_call.url # HeroUrl
    /\ last_call.content_type = "Image/PNG"
    /\ last_call.body = Body("image", 640, 9)
    /\ ValidFileIn(images_disk, downloaded_images_info[1].local_path)

\* the download_image call of this step got as far as writing to its file
AttemptWrote == ResponseReceived /\ StartsWith(Lower(last_call'.content_type), "image/")

\* C14: every download_image call that fails (policy denial, transport
\* error, also one raised while the body is streamed to disk, wrong
\* content-type, undecodable bytes, dimensions below the minimum) records
\* its URL in failed_images and leaves no file of that attempt on disk, and
\* extract_and_download_images goes on with the next image URL.
C14_FailureLeavesNoFile ==
    [][ncalls' = ncalls + 1 /\ ret' = "None" =>
          /\ last_call'.url \in failed_images'
          /\ IF AttemptWrote THEN \A f \in images_disk' : f.path # CallPath
                              ELSE images_disk' = images_disk
          /\ last_call'.via = "loop" =>
                 /\ pc' = "images"
                 /\ image_urls' = image_urls \ {last_call'.url}]_vars

(***************************************************************************)
(* Text Segmenter called on its own.                                       *)
(***************************************************************************)

\* texts put together from an opening, a body and an end
SegmenterTexts ==
    {head \o body \o tail :
        head \in {"", "Frequently Asked Questions ", "Settlement ", "settlement and refunds: ",
                  "Refunds\n", "JioPay business app "},
        body \in {"", "Hello world today", "What is a chargeback? How long does it take?",
                  "we pay out daily. Is it free? yes", "short", "Repeat payments\nWhy not?",
                  "When is a settlement paid? Is a settlement free?", "ten chars."},
        tail \in {"", " ", "?", "\nWho can help me with DQR codes?"}}

InitSegmenter ==
    /\ pc = "call"
    /\ now = ClockStart
    /\ arg \in SegmenterTexts
    /\ ret = <<>>
    /\ Constructed(NoParser)
    /\ images_disk = {}
    /\ html_disk = {}
    /\ NoRunYet
    /\ NoCallsYet

\* one call parse_faq_content_by_tabs(arg)
ParseFaqContentByTabsCall ==
    /\ pc = "call"
    /\ pc' = "return"
    /\ ret' = ParseFaqContentByTabs(arg)
    /\ UNCHANGED <<run_state, now, arg, crawl_state, images_disk, extract_locals, call_record>>

NextSegmenter == ParseFaqContentByTabsCall

SpecSegmenter == InitSegmenter /\ [][NextSegmenter]_vars

\* the text contains none of the 13 FAQ category names
NoTopicKeyword(text) == \A k \in DOMAIN faq_categories : ~Contains(text, faq_categories[k])

\* the one-entry mapping {General: text}
GeneralOnly(text) == <<[tab |-> "General", content |-> text]>>

\* C20 as stated: for every text that contains none of the 13 FAQ category
\* names, parse_faq_content_by_tabs returns exactly {General: text}, the text
\* unchanged.
C20_NoKeywordGeneralAsClaimed ==
    pc = "return" /\ NoTopicKeyword(arg) => ret = GeneralOnly(arg)

\* C20 amended: for every text that contains none of the 13 FAQ category
\* names and not the phrase "Frequently Asked Questions",
\* parse_faq_content_by_tabs returns exactly {General: text}, the text
\* unchanged, with or without question marks in it.
C20_NoIndicatorGeneral ==
    pc = "return" /\ NoTopicKeyword(arg) /\ ~Contains(arg, "Frequently Asked Questions")
        => ret = GeneralOnly(arg)

\* C20's case: a text with question marks and a category name in lower case
\* only comes back whole under General
C20_Witness ==
    /\ pc = "return"
    /\ arg = "settlement and refunds: What is a chargeback? How long does it take?"
    /\ ret = GeneralOnly(arg)

(***************************************************************************)
(* lambda_handler: one run, from the invocation to the response returned.  *)
(* pc goes invoke, construct, crawl_business, crawl_help, save, process,   *)
(* then through extract_and_download_images (idle to done or raised), and  *)
(* ends at returned.                                                       *)
(***************************************************************************)

business_url == "https://jiopay.com/business"
help_center_url == "https://jiopay.com/business/help-center"

\* self.text_folder, with the separator os.path.join adds
text_folder == "text/"

\* "event.get('max_pages', 500) if event else 500"
DefaultMaxPages == 500

\* the pages one crawl call returns at most
MaxCrawlPages == 1

\* a page record of the crawl data: a Document object of the crawl service
\* ("document"), a dictionary ("dict") or anything else ("other"); has_source
\* says whether its metadata has a sourceURL; html names its HTML document,
\* "" being an empty body
Page(type, has_source, source_url, html) ==
    [type |-> type, has_source |-> has_source, source_url |-> source_url, html |-> html]

\* the page records the business-site crawl may return
BusinessRecords ==
    {Page("document", TRUE, business_url, "home"),
     Page("document", TRUE, "https://jiopay.com/login", "home"),
     Page("document", TRUE, "https://jiopay.com/business/pricing", ""),
     Page("document", FALSE, "", "home"),
     Page("dict", TRUE, "https://jiopay.com/business/pricing", "home"),
     Page("other", FALSE, "", "")}

\* the page records the help-center crawl may return
HelpRecords ==
    {Page("document", TRUE, help_center_url, "faq"),
     Page("document", TRUE, business_url, "home"),
     Page("dict", TRUE, "https://jiopay.com/login", "home")}

\* what self.firecrawl.crawl may do: raise, return nothing usable (None, or a
\* result without data), or return page records
CrawlAnswers(records) ==
    {[kind |-> k, data |-> <<>>] : k \in {"raise", "none"}}
    \cup {[kind |-> "data", data |-> d] : d \in SeqsBetween(records, 1, MaxCrawlPages)}

\* the environments and the events of the runs
Environs ==
    {[set |-> FALSE, value |-> ""], [set |-> TRUE, value |-> ""],
     [set |-> TRUE, value |-> "fc-test-key"]}

Events ==
    {[kind |-> "none", has_max_pages |-> FALSE, max_pages |-> 0],
     [kind |-> "dict", has_max_pages |-> FALSE, max_pages |-> 0],
     [kind |-> "dict", has_max_pages |-> TRUE, max_pages |-> 0],
     [kind |-> "dict", has_max_pages |-> TRUE, max_pages |-> 1],
     [kind |-> "dict", has_max_pages |-> TRUE, max_pages |-> 7],
     [kind |-> "other", has_max_pages |-> FALSE, max_pages |-> 0]}

\* how _is_url_allowed ends on each source URL of the pages, under each parser
PageVerdicts ==
    [parser \in FetcherParsers |->
        [url \in {p.source_url : p \in {r \in BusinessRecords \cup HelpRecords : r.has_source}}
            |-> PolicyVerdict(parser, url)]]

\* the text docling's converter gives for each document of the site
TextOf(html) ==
    IF html = "faq"
    THEN "Settlement When is the payout made? Refunds How are refunds paid back?"
    ELSE IF html = "home" THEN "Welcome to JioPay for business"
    ELSE "JioPay Business App Can I accept cards? yes"

\* parse_faq_content_by_tabs on the text of each document of the site
SiteTabs == [html \in SiteHtml |-> ParseFaqContentByTabs(TextOf(html))]

InitHandler ==
    /\ pc = "invoke"
    /\ now = ClockStart
    /\ arg = ""
    /\ ret = "None"
    /\ Constructed(NoParser)
    /\ images_disk = {}
    /\ html_disk = {}
    /\ NoCallsYet
    /\ environ \in Environs
    /\ event \in Events
    /\ max_pages = 0
    /\ built = FALSE
    /\ dirs = {}
    /\ robots_fetches = 0
    /\ crawl_calls = <<>>
    /\ crawl_data = <<>>
    /\ page_i = 0
    /\ text_disk = {}
    /\ processed_files = <<>>
    /\ returned = [statusCode |-> 0]

\* what the image step alone changes, and what no step of a run changes
image_state ==
    <<arg, ret, downloaded_images, failed_images, images_disk, image_urls,
      downloaded_images_info, call_record>>

\* the step goes on to the next point of the run
Goes(next) == pc' = next /\ returned' = returned

\* the step raises: the except clause of lambda_handler returns the error
\* response
Raises(error) ==
    /\ pc' = "returned"
    /\ returned' = [statusCode |-> 500,
                    body |-> [error |-> error,
                              message |-> "Failed to crawl, extract text, and download images",
                              timestamp |-> now]]

\* the credential test passed by every value that is set, the empty one too
MissingKeyIfUnset(env) == ~env.set

\* "api_key = os.environ.get('FIRECRAWL_API_KEY')" and "if not api_key"
MissingKey(env) == ~env.set \/ env.value = ""

\* lines 1046-1053: the credential is read, then max_pages from the event
HandlerStart ==
    /\ pc = "invoke"
    /\ IF MissingKey(environ)
       THEN Raises("FIRECRAWL_API_KEY environment variable is required")
            /\ max_pages' = max_pages
       ELSE IF event.kind = "other"
       THEN Raises("object has no attribute 'get'") /\ max_pages' = max_pages
       ELSE /\ Goes("construct")
            /\ max_pages' = IF event.kind = "dict" /\ event.has_max_pages
                            THEN event.max_pages ELSE DefaultMaxPages
    /\ UNCHANGED <<now, image_state, environ, event, robots_parser, crawled_urls, failed_urls,
                   html_files, files_left, built, dirs, robots_fetches, crawl_calls,
                   crawl_data, page_i, html_disk, text_disk, processed_files>>

\* line 1056, FirecrawlLambdaScraper(api_key, max_pages): the clients are
\* made, the three directories, and robots.txt is fetched; or a client or a
\* directory cannot be made
Construct ==
    /\ pc = "construct"
    /\ \/ /\ Goes("crawl_business")
          /\ built' = TRUE
          /\ dirs' = {html_folder, text_folder, images_folder}
          /\ robots_fetches' = robots_fetches + 1
          /\ robots_parser' \in FetcherParsers
       \/ /\ Raises("scraper could not be constructed")
          /\ UNCHANGED <<built, dirs, robots_fetches, robots_parser>>
    /\ UNCHANGED <<now, image_state, environ, event, crawled_urls, failed_urls, html_files,
                   files_left, max_pages, crawl_calls, crawl_data, page_i, html_disk,
                   text_disk, processed_files>>

\* lines 539-541: the source URLs of the records that are tracked
Tracked(data) ==
    {data[k].source_url : k \in {j \in DOMAIN data :
                                    data[j].type = "document" /\ data[j].has_source}}

\* a crawl call that asks for max_pages pages, not for half of them
CrawlCallWholeLimit(url, answer) ==
    /\ crawl_calls' = Append(crawl_calls,
                            [url |-> url, limit |-> max_pages,
                             answer |-> answer.kind, pages |-> Len(answer.data)])
    /\ crawl_data' = crawl_data \o answer.data
    /\ crawled_urls' = crawled_urls \cup Tracked(answer.data)

\* one self.firecrawl.crawl call and what lines 534-545 (680-691) do with
\* its answer; the call is recorded with how it ended and the pages it gave
CrawlCall(url, answer) ==
    /\ crawl_calls' = Append(crawl_calls,
                            [url |-> url, limit |-> max_pages \div 2,
                             answer |-> answer.kind, pages |-> Len(answer.data)])
    /\ crawl_data' = crawl_data \o answer.data
    /\ crawled_urls' = crawled_urls \cup Tracked(answer.data)

\* lines 515-545: the business site is crawled
CrawlBusiness ==
    /\ pc = "crawl_business"
    /\ \E answer \in CrawlAnswers(BusinessRecords) :
          /\ CrawlCall(business_url, answer)
          /\ IF answer.kind = "raise" THEN Raises("crawl failed") ELSE Goes("crawl_help")
    /\ UNCHANGED <<now, image_state, environ, event, robots_parser, failed_urls, html_files,
                   files_left, max_pages, built, dirs, robots_fetches, page_i, html_disk,
                   text_disk, processed_files>>

\* the test of line 694 passed by every list, the empty one too
NoDataNever(combined_data) == FALSE

\* "if not combined_data"
NoData(combined_data) == combined_data = <<>>

\* lines 551-710: the help center is crawled, and the two answers combined
CrawlHelp ==
    /\ pc = "crawl_help"
    /\ \E answer \in CrawlAnswers(HelpRecords) :
          /\ CrawlCall(help_center_url, answer)
          /\ IF answer.kind = "raise" THEN Raises("crawl failed")
             ELSE IF NoData(crawl_data \o answer.data)
             THEN Raises("No data returned from Firecrawl crawl")
             ELSE Goes("save")
    /\ UNCHANGED <<now, image_state, environ, event, robots_parser, failed_urls, html_files,
                   files_left, max_pages, built, dirs, robots_fetches, page_i, html_disk,
                   text_disk, processed_files>>

\* lines 719-737: the URL save_html_files takes for the page at index i
\* (i has one digit in the model)
PageUrl(page, i) ==
    IF page.has_source THEN page.source_url ELSE base_url \o "/page_" \o Digit(i)

\* lines 719-742: what save_html_files does with a page, verdicts being how
\* _is_url_allowed ends on each source URL
SaveStep(page, verdicts) ==
    IF page.type = "other" THEN "unknown"
    ELSE IF page.type = "document" /\ page.has_source
            /\ verdicts[page.source_url] # "allowed"
    THEN verdicts[page.source_url]
    ELSE IF page.html = "" THEN "empty"
    ELSE "write"

\* the body of the loop of save_html_files for one page; the file is written
\* or the write fails, and an exception leaves save_html_files
SavePageAs(page_url, html, step) ==
    /\ page_i' = page_i + 1
    /\ failed_urls' = IF step \in {"denied", "empty"}
                      THEN failed_urls \cup {page_url} ELSE failed_urls
    /\ IF step = "raised" THEN Raises("urlparse failed") /\ UNCHANGED <<html_disk, html_files>>
       ELSE IF step # "write" THEN Goes("save") /\ UNCHANGED <<html_disk, html_files>>
       ELSE \/ /\ Raises("cannot write the file")
               /\ UNCHANGED <<html_disk, html_files>>
            \/ /\ Goes("save")
               /\ html_disk' = WriteFile(html_disk,
                                   html_folder \o GenerateFilename(page_url, "html", now), html)
               /\ html_files' = Append(html_files,
                                   html_folder \o GenerateFilename(page_url, "html", now))

\* lines 717-753: save_html_files takes the next page
SavePage ==
    /\ pc = "save"
    /\ page_i < Len(crawl_data)
    /\ SavePageAs(PageUrl(crawl_data[page_i + 1], page_i), crawl_data[page_i + 1].html,
                  SaveStep(crawl_data[page_i + 1], PageVerdicts[robots_parser]))
    /\ UNCHANGED <<now, image_state, environ, event, robots_parser, crawled_urls, files_left,
                   max_pages, built, dirs, robots_fetches, crawl_calls, crawl_data,
                   text_disk, processed_files>>

\* line 755 and line 1069: save_html_files returns saved_files and
\* process_html_files_with_tab_organization is entered
SaveReturn ==
    /\ pc = "save"
    /\ page_i = Len(crawl_data)
    /\ Goes("process")
    /\ files_left' = html_files
    /\ UNCHANGED <<now, image_state, environ, event, robots_parser, crawled_urls, failed_urls,
                   html_files, max_pages, built, dirs, robots_fetches, crawl_calls,
                   crawl_data, page_i, html_disk, text_disk, processed_files>>

\* lines 945-950: the name of a section's text file
TabFilename(tab, t) ==
    IF tab = "General" THEN "general_content_" \o Timestamp(t) \o ".txt"
    ELSE "faq_" \o CleanChars(Lower(tab)) \o "_" \o Timestamp(t) \o ".txt"

\* "if not content.strip(): continue": the sections that get a file
RECURSIVE KeptTabs(_)
KeptTabs(tabs) ==
    IF tabs = <<>> THEN <<>>
    ELSE (IF Strip(Head(tabs).content) = "" THEN <<>> ELSE <<Head(tabs)>>)
         \o KeptTabs(Tail(tabs))

\* lines 952-967 for each of the sections: the text folder afterwards
RECURSIVE TabsWritten(_, _, _, _)
TabsWritten(disk, tabs, html_file, t) ==
    IF tabs = <<>> THEN disk
    ELSE TabsWritten(WriteFile(disk, text_folder \o TabFilename(Head(tabs).tab, t),
                               [source |-> Basename(html_file), tab |-> Head(tabs).tab,
                                content |-> Head(tabs).content]),
                     Tail(tabs), html_file, t)

\* lines 994-1001: the entry appended for a processed file
ProcessedInfo(html_file, tabs, kept, text, t) ==
    [html_file |-> html_file,
     text_files |-> [k \in DOMAIN kept |-> TabFilename(kept[k].tab, t)],
     tab_count |-> Len(tabs),
     total_content_length |-> Len(text),
     tabs_detected |-> [k \in DOMAIN tabs |-> tabs[k].tab]]

\* lines 985-1005 for one file whose text is text and whose sections are
\* tabs, kept being those that get a file: all are written, or the write of
\* one fails after the files before it are written
ProcessFileAs(html_file, text, tabs, kept) ==
    IF text = ""
    THEN Goes("process") /\ files_left' = Tail(files_left)
         /\ UNCHANGED <<text_disk, processed_files>>
    ELSE \E n \in 0..Len(kept) :
            /\ text_disk' = TabsWritten(text_disk, SubSeq(kept, 1, n), html_file, now)
            /\ IF n = Len(kept)
               THEN /\ Goes("process")
                    /\ files_left' = Tail(files_left)
                    /\ processed_files' =
                           Append(processed_files,
                                  ProcessedInfo(html_file, tabs, kept, text, now))
               ELSE Raises("cannot write the file") /\ UNCHANGED <<files_left, processed_files>>

\* lines 981-1005: process_html_files_with_tab_organization takes the next
\* file; the converter gives the document's text, or no text
ProcessFile ==
    /\ pc = "process"
    /\ files_left # <<>>
    /\ \E text \in {TextOf(FileAt(html_disk, Head(files_left)).holds), ""} :
          ProcessFileAs(Head(files_left), text,
                        SiteTabs[FileAt(html_disk, Head(files_left)).holds],
                        KeptTabs(SiteTabs[FileAt(html_disk, Head(files_left)).holds]))
    /\ UNCHANGED <<now, image_state, environ, event, robots_parser, crawled_urls, failed_urls,
                   html_files, max_pages, built, dirs, robots_fetches, crawl_calls,
                   crawl_data, page_i, html_disk>>

\* the text step left at any file, the files after it unprocessed
ProcessReturnEarly ==
    /\ pc = "process"
    /\ Goes("idle")
    /\ UNCHANGED <<now, image_state, environ, event, robots_parser, crawled_urls, failed_urls,
                   html_files, files_left, max_pages, built, dirs, robots_fetches,
                   crawl_calls, crawl_data, page_i, html_disk, text_disk, processed_files>>

\* line 1008 and line 1073: the text step returns and
\* extract_and_download_images is about to be called
ProcessReturn ==
    /\ pc = "process"
    /\ files_left = <<>>
    /\ Goes("idle")
    /\ UNCHANGED <<now, image_state, environ, event, robots_parser, crawled_urls, failed_urls,
                   html_files, files_left, max_pages, built, dirs, robots_fetches,
                   crawl_calls, crawl_data, page_i, html_disk, text_disk, processed_files>>

\* the summary with the two counts of failures left at zero
SummaryOfSuccesses ==
    [total_pages_crawled |-> Len(crawl_data),
     unique_urls_discovered |-> Cardinality(crawled_urls),
     failed_urls |-> 0,
     max_pages_limit |-> max_pages,
     robots_txt_compliance |-> robots_parser.loaded,
     html_files_saved |-> Len(html_files),
     text_files_processed |-> Len(processed_files),
     images_downloaded |-> Len(downloaded_images_info),
     failed_images |-> 0,
     timestamp |-> now]

\* lines 1076-1100: the numbers of the summary body
Summary ==
    [total_pages_crawled |-> Len(crawl_data),
     unique_urls_discovered |-> Cardinality(crawled_urls),
     failed_urls |-> Cardinality(failed_urls),
     max_pages_limit |-> max_pages,
     robots_txt_compliance |-> robots_parser.loaded,
     html_files_saved |-> Len(html_files),
     text_files_processed |-> Len(processed_files),
     images_downloaded |-> Len(downloaded_images_info),
     failed_images |-> Cardinality(failed_images),
     timestamp |-> now]

\* lines 1076-1104: the four steps are through and the summary is returned
HandlerReturn ==
    /\ pc = "done"
    /\ pc' = "returned"
    /\ returned' = [statusCode |-> 200, body |-> Summary]
    /\ UNCHANGED <<now, image_state, environ, event, robots_parser, crawled_urls, failed_urls,
                   html_files, files_left, max_pages, built, dirs, robots_fetches,
                   crawl_calls, crawl_data, page_i, html_disk, text_disk, processed_files>>

\* lines 1106-1115: the exception extract_and_download_images let through is
\* caught
HandlerCatch ==
    /\ pc = "raised"
    /\ Raises("cannot read the file")
    /\ UNCHANGED <<now, image_state, environ, event, robots_parser, crawled_urls, failed_urls,
                   html_files, files_left, max_pages, built, dirs, robots_fetches,
                   crawl_calls, crawl_data, page_i, html_disk, text_disk, processed_files>>

NextHandler ==
    \/ HandlerStart
    \/ Construct
    \/ CrawlBusiness
    \/ CrawlHelp
    \/ SavePage
    \/ SaveReturn
    \/ ProcessFile
    \/ ProcessReturn
    \/ ExtractStart
    \/ ExtractReadFile
    \/ ExtractReadFails
    \/ ImageSkip
    \/ ImageDownload
    \/ ImageLoopEnd
    \/ ExtractReturn
    \/ HandlerReturn
    \/ HandlerCatch
    \/ Tick

SpecHandler == InitHandler /\ [][NextHandler]_vars

\* the page save_html_files takes in this step, and the URL it takes for it
PageAtHand == crawl_data[page_i + 1]

\* save_html_files is through with a page in this step, or left by an
\* exception at it
PageStep == pc = "save" /\ page_i' = page_i + 1

\* the page of this step fails: it is a Document or a dictionary, and no file
\* is saved for it
PageFails == PageStep /\ PageAtHand.type # "other" /\ html_files' = html_files

\* C15: a page that fails in save_html_files (denied by the policy, empty
\* HTML body, or a failure while its file is written) has its URL added to
\* failed_urls, and save_html_files goes on with the next page: the run is
\* not aborted and no error response is returned.
C15_PageFailureRecorded ==
    [][PageFails =>
          /\ PageUrl(PageAtHand, page_i) \in failed_urls'
          /\ pc' = "save"
          /\ returned'.statusCode # 500]_vars

\* _is_url_allowed denies the source URL of the page of this step
PageDenied ==
    /\ PageAtHand.has_source
    /\ PageVerdicts[robots_parser][PageAtHand.source_url] = "denied"

\* C16: save_html_files applies the Policy Filter to the source URL of every
\* page record, Document object or dictionary: a page whose URL is denied
\* gets no HTML file and its URL is added to failed_urls; an allowed page
\* with non-empty HTML, when save_html_files goes on, has got exactly one
\* file.
C16_PolicyOnEveryRecord ==
    [][PageStep /\ PageAtHand.type \in {"document", "dict"} /\ PageAtHand.has_source =>
          IF PageDenied
          THEN /\ html_files' = html_files
               /\ html_disk' = html_disk
               /\ PageAtHand.source_url \in failed_urls'
          ELSE PageAtHand.html # "" /\ pc' = "save" =>
                   /\ Len(html_files') = Len(html_files) + 1
                   /\ \E f \in html_disk' : f.path = html_files'[Len(html_files')]]_vars

\* no HTML, text or image file has been written
NoFileWritten == html_disk = {} /\ text_disk = {} /\ images_disk = {}

\* the second crawl call returns in this step, so that both have returned
BothCrawlsReturned ==
    /\ pc = "crawl_help"
    /\ Len(crawl_calls') = 2
    /\ crawl_calls'[1].answer # "raise"
    /\ crawl_calls'[2].answer # "raise"

\* C17: when the two crawl calls have returned and neither gave a page,
\* crawl_entire_website raises and lambda_handler returns statusCode 500 with
\* an error body, no HTML, text or image file being written in the run; when
\* at least one of them gave pages, the run goes on to save_html_files with
\* the pages of both.  (A crawl call that itself raises ends the run with
\* statusCode 500 too.)
C17_NoPageDataIsFatal ==
    /\ [][BothCrawlsReturned =>
             IF crawl_calls'[1].pages + crawl_calls'[2].pages = 0
             THEN /\ pc' = "returned"
                  /\ returned'.statusCode = 500
                  /\ returned'.body.error = "No data returned from Firecrawl crawl"
             ELSE /\ pc' = "save"
                  /\ returned' = returned
                  /\ Len(crawl_data') = crawl_calls'[1].pages + crawl_calls'[2].pages]_vars
    /\ [](pc = "returned" /\ crawl_data = <<>> => returned.statusCode = 500 /\ NoFileWritten)

\* C17's case: both crawl calls were made and returned no page, and the
\* handler has returned the error response, no file written
C17_Witness ==
    /\ pc = "returned"
    /\ Len(crawl_calls) = 2
    /\ crawl_calls[1].answer = "none"
    /\ crawl_calls[2].answer = "none"
    /\ returned.statusCode = 500
    /\ returned.body.error = "No data returned from Firecrawl crawl"
    /\ NoFileWritten

\* C18: when FIRECRAWL_API_KEY is absent or empty, lambda_handler ends with
\* the statusCode 500 response and does nothing before: no scraper is
\* constructed, no directory made, no robots.txt fetched, no crawl call
\* made, no file written.
C18_NoKeyNoWork ==
    ~environ.set \/ environ.value = "" =>
        /\ pc \in {"invoke", "returned"}
        /\ pc = "returned" => returned.statusCode = 500
        /\ ~built
        /\ dirs = {}
        /\ robots_fetches = 0
        /\ crawl_calls = <<>>
        /\ NoFileWritten

\* C18's case: the variable is set but empty, the event asks for 7 pages,
\* and the handler has returned the error response
C18_Witness ==
    /\ environ = [set |-> TRUE, value |-> ""]
    /\ event.has_max_pages
    /\ pc = "returned"
    /\ returned.statusCode = 500
    /\ returned.body.error = "FIRECRAWL_API_KEY environment variable is required"
    /\ ~built

\* a step of lambda_handler: every step but the clock's
RunStep ==
    \/ HandlerStart \/ Construct \/ CrawlBusiness \/ CrawlHelp \/ SavePage
    \/ SaveReturn \/ ProcessFile \/ ProcessReturn \/ ExtractStart
    \/ ExtractReadFile \/ ExtractReadFails \/ ImageSkip \/ ImageDownload
    \/ ImageLoopEnd \/ ExtractReturn \/ HandlerReturn \/ HandlerCatch

\* the handler is sequential code that the runtime runs on: a step that can
\* be taken is taken
SpecHandlerRuns == SpecHandler /\ WF_vars(RunStep)

\* the response is the summary, with the counts of pages saved, pages
\* failed, images downloaded and images failed as they are at the return
IsSummaryResponse ==
    /\ returned.statusCode = 200
    /\ returned.body.html_files_saved = Len(html_files)
    /\ returned.body.failed_urls = Cardinality(failed_urls)
    /\ returned.body.images_downloaded = Len(downloaded_images_info)
    /\ returned.body.failed_images = Cardinality(failed_images)

\* the response is the error response: error, message and timestamp
IsErrorResponse ==
    /\ returned.statusCode = 500
    /\ DOMAIN returned.body = {"error", "message", "timestamp"}

\* C19: for every event (absent, without max_pages, with max_pages, or one
\* that makes a step fail) the run reaches the return of lambda_handler, an
\* exception of any step being caught, and what is returned is either statusCode 200 with the
\* summary and its four counts or statusCode 500 with error, message and
\* timestamp; max_pages is 500 when the event supplies none.
C19_AlwaysAResponse ==
    /\ <>(pc = "returned")
    /\ [](pc # "returned" => returned.statusCode = 0)
    /\ [](pc = "returned" => IsSummaryResponse \/ IsErrorResponse)
    /\ [](built => max_pages = IF event.kind = "dict" /\ event.has_max_pages
                               THEN event.max_pages ELSE 500)

\* C19's case: an absent event; one page was denied and one saved, an image
\* was downloaded and one failed, and the summary returned says so with
\* max_pages 500
C19_Witness ==
    /\ event.kind = "none"
    /\ pc = "returned"
    /\ returned.statusCode = 200
    /\ returned.body.max_pages_limit = 500
    /\ returned.body.html_files_saved = 1
    /\ returned.body.failed_urls = 1
    /\ returned.body.images_downloaded = 1
    /\ returned.body.failed_images = 1

\* the text is the keyword Settlement, then two sentences that each end in a
\* question mark, and holds no other category name
SettlementThenTwoQuestions(text) ==
    /\ StartsWith(text, "Settlement ")
    /\ EndsWith(text, "?")
    /\ Cardinality({i \in 1..Len(text) : CharAt(text, i) = "?"}) = 2
    /\ Len(Strip(SubSeq(text, 12, Find(text, "?")))) > 1
    /\ Len(Strip(From(text, Find(text, "?") + 1))) > 1
    /\ \A k \in DOMAIN faq_categories :
           faq_categories[k] # "Settlement" => ~Contains(text, faq_categories[k])

\* the two sentences of such a text
FirstSentence(text) == Strip(SubSeq(text, 12, Find(text, "?")))
SecondSentence(text) == Strip(From(text, Find(text, "?") + 1))

\* the mapping has a section of that name whose text contains the sentence
SectionContains(dict, tab, sentence) ==
    \E k \in DOMAIN dict : dict[k].tab = tab /\ Contains(dict[k].content, sentence)

\* C21 as stated: for a text that is the keyword Settlement followed by two
\* question-mark-terminated sentences, with no other category name,
\* parse_faq_content_by_tabs returns a mapping whose Settlement section
\* contains both sentences.
C21_SettlementHoldsBoth ==
    pc = "return" /\ SettlementThenTwoQuestions(arg) =>
        /\ SectionContains(ret, "Settlement", FirstSentence(arg))
        /\ SectionContains(ret, "Settlement", SecondSentence(arg))

\* the mapping has a General section
HasGeneral(dict) == \E k \in DOMAIN dict : dict[k].tab = "General"

\* C22 as stated: for every text parse_faq_content_by_tabs returns (no
\* exception leaves it) a mapping that has at least a General section, so
\* that the mapping is never empty.
C22_AlwaysGeneral == pc = "return" => HasGeneral(ret)

\* the section and the content at hand after the first n pieces of the text
\* have gone through the loop of lines 850-888
AccAfter(text, n) ==
    OrganizeFrom(SubSeq(Questions(text), 1, n), 1,
                 [tabs |-> <<>>, section |-> "General", content |-> <<>>])

\* the fragments the loop looks at for one stripped piece: the piece itself,
\* or, when it holds a category name, the stripped non-empty pieces of its
\* text from the name on, cut after question marks
Fragments(part, matched) ==
    IF matched = "" THEN <<part>>
    ELSE SelectSeq([i \in DOMAIN ReSplit("question", From(part, Find(part, matched))) |->
                       Strip(ReSplit("question", From(part, Find(part, matched)))[i])],
                   LAMBDA f : f # "")

\* the entries are the fragments, each as it is or with a "?" appended
AreFragments(entries, fragments) ==
    /\ Len(entries) = Len(fragments)
    /\ \A i \in DOMAIN entries : entries[i] \in {fragments[i], fragments[i] \o "?"}

\* the k-th piece of the text, stripped, and its category
PartOf(text, k) == Strip(Questions(text)[k])

\* what the loop added to the content at hand for the k-th piece
AddedFor(text, k) ==
    IF MatchedCategory(PartOf(text, k)) # "" THEN AccAfter(text, k).content
    ELSE SubSeq(AccAfter(text, k).content, Len(AccAfter(text, k - 1).content) + 1,
                Len(AccAfter(text, k).content))

\* in the loop over the text's pieces, the fragments of at least min
\* characters are kept, in order, under the category seen last (General
\* before any), and the shorter ones are dropped
KeptFrom(text, min) ==
    \A k \in DOMAIN Questions(text) :
        PartOf(text, k) # "" =>
            /\ AccAfter(text, k).section =
                   IF MatchedCategory(PartOf(text, k)) # ""
                   THEN MatchedCategory(PartOf(text, k)) ELSE AccAfter(text, k - 1).section
            /\ AreFragments(AddedFor(text, k),
                   SelectSeq(Fragments(PartOf(text, k), MatchedCategory(PartOf(text, k))),
                             LAMBDA f : Len(f) >= min))

PhaseRank(p) ==
    IF p = "invoke" THEN 0
    ELSE IF p = "construct" THEN 1
    ELSE IF p = "crawl_business" THEN 2
    ELSE IF p = "crawl_help" THEN 3
    ELSE IF p = "save" THEN 4
    ELSE IF p = "process" THEN 5
    ELSE IF p \in {"idle", "files", "images", "done", "raised"} THEN 6
    ELSE 7

\* what a step does: a crawl call, a page of save_html_files, a file of the
\* text step, a download_image call
StepCrawls == crawl_calls' # crawl_calls
StepSavesPage == page_i' # page_i
StepWritesHtml == html_disk' # html_disk
StepProcessesText ==
    pc = "process" /\ (files_left' # files_left \/ text_disk' # text_disk
                       \/ processed_files' # processed_files)
StepDownloads == ncalls' # ncalls

\* the number of pages, files and images a step handles
HandledInStep ==
    (IF StepSavesPage THEN page_i' - page_i ELSE 0)
    + (IF StepProcessesText THEN Len(files_left) - Len(files_left') ELSE 0)
    + (IF StepDownloads THEN ncalls' - ncalls ELSE 0)

\* C24: a run goes through its phases in order and never back: the two
\* crawl calls have returned before an HTML file is written; HTML files are
\* written only by save_html_files, before any text is converted or
\* segmented; the text step has taken every HTML file before the first
\* download_image call; and a step handles at most one page, one file or
\* one image.
C24_PhasesInOrder ==
    [][/\ PhaseRank(pc') >= PhaseRank(pc)
       /\ StepCrawls => pc \in {"crawl_business", "crawl_help"}
       /\ StepSavesPage \/ StepWritesHtml =>
              /\ pc = "save"
              /\ Len(crawl_calls) = 2
              /\ \A k \in 1..2 : crawl_calls[k].answer # "raise"
              /\ text_disk = {} /\ processed_files = <<>> /\ ncalls = 0
       /\ StepProcessesText => page_i = Len(crawl_data) /\ ncalls = 0 /\ html_disk' = html_disk
       /\ pc = "process" /\ pc' = "idle" => files_left = <<>>
       /\ StepDownloads =>
              /\ pc = "images"
              /\ html_disk' = html_disk /\ text_disk' = text_disk
              /\ processed_files' = processed_files
       /\ HandledInStep <= 1]_vars

\* C24's case: a run that crawled, saved two pages, wrote text files and
\* downloaded an image has returned the summary
C24_Witness ==
    /\ pc = "returned"
    /\ returned.statusCode = 200
    /\ Len(crawl_calls) = 2
    /\ Len(html_files) = 2
    /\ text_disk # {}
    /\ downloaded_images # {}

\* download_image is called in this step
DownloadImageCalled == ncalls' = ncalls + 1

\* C25: every download_image call returns with its outcome recorded: when it
\* returns a path the URL is in downloaded_images and failed_images is as
\* before, when it returns None the URL is in failed_images and
\* downloaded_images is as before; a call made by the loop of
\* extract_and_download_images, whose URL was in neither set, leaves it in
\* exactly one, the one its return value tells.
C25_OutcomeMatchesReturn ==
    [][DownloadImageCalled =>
          /\ ret' # "None" =>
                 /\ last_call'.url \in downloaded_images'
                 /\ failed_images' = failed_images
                 /\ \E f \in images_disk' : f.path = ret'
          /\ ret' = "None" =>
                 /\ last_call'.url \in failed_images'
                 /\ downloaded_images' = downloaded_images
          /\ last_call'.via = "loop" =>
                 /\ last_call'.url \notin downloaded_images \cup failed_images
                 /\ ret' # "None" <=> last_call'.url \in downloaded_images'
                 /\ ret' = "None" <=> last_call'.url \in failed_images']_vars

\* C25's case: the loop's last call returned a path and its URL is in
\* downloaded_images only, after an earlier call had failed on a broken
\* stream and left its URL in failed_images only
C25_Witness ==
    /\ last_call.via = "loop"
    /\ ret # "None"
    /\ last_call.url \in downloaded_images \ failed_images
    /\ failed_images \ downloaded_images # {}
    /\ \E f \in images_disk : f.holds.kind = "partial"
    /\ direct_calls = 0

\* save_html_files returns in this step
SaveReturns == pc = "save" /\ pc' = "process"

\* the URL save_html_files takes for the k-th page record
UrlOfRecord(k) == PageUrl(crawl_data[k], k - 1)

\* the files on disk that save_html_files names after the URL
FilesFor(page_url) ==
    {f \in html_disk : \E t \in Clock : f.path = html_folder \o GenerateFilename(page_url, "html", t)}

\* C26 as stated: when save_html_files returns, every page record has either
\* produced a saved HTML file of its own or has its URL in failed_urls (the
\* records of a URL that is not in failed_urls are no more than the files on
\* disk named after it), and the files saved are no more than the page
\* records.
C26_EveryPageAccounted ==
    [][SaveReturns =>
          /\ \A k \in DOMAIN crawl_data :
                 \/ UrlOfRecord(k) \in failed_urls
                 \/ Cardinality({j \in DOMAIN crawl_data : UrlOfRecord(j) = UrlOfRecord(k)})
                        <= Cardinality(FilesFor(UrlOfRecord(k)))
          /\ Len(html_files) <= Len(crawl_data)]_vars

\* the text file the entry of a processed HTML file names is on disk and is
\* the one written for that HTML file
OwnTextFile(entry, name) ==
    \E f \in text_disk :
        /\ f.path = text_folder \o name
        /\ f.holds.source = Basename(entry.html_file)

\* C27 as stated: the section text files written for one HTML file are never
\* overwritten by those of another HTML file of the run: every section file
\* listed for a processed HTML file is on disk as written for that file, also
\* when two HTML files are processed within one clock second.
C27_TextFilesKept ==
    \A i \in DOMAIN processed_files :
        \A k \in DOMAIN processed_files[i].text_files :
            OwnTextFile(processed_files[i], processed_files[i].text_files[k])

\* n is floor(m / 2): the integer with 2n <= m < 2n + 2
IsHalfFloor(n, m) == 2 * n <= m /\ m < 2 * n + 2

\* the sum of the limits of the crawl calls made
RECURSIVE LimitsRequested(_)
LimitsRequested(calls) ==
    IF calls = <<>> THEN 0 ELSE Head(calls).limit + LimitsRequested(Tail(calls))

\* C28: for every max_pages >= 0 the crawl calls of crawl_entire_website are
\* the business site, then the help center, and no third; each asks for
\* floor(max_pages / 2) pages, so that the limits sum to at most max_pages;
\* when the first call returns, with or without data, the second call is
\* the next step, and a run that gets past crawl_entire_website has made
\* exactly the two calls.
C28_TwoHalfLimitCalls ==
    /\ [](/\ Len(crawl_calls) <= 2
          /\ \A k \in DOMAIN crawl_calls :
                 /\ crawl_calls[k].url = IF k = 1 THEN business_url ELSE help_center_url
                 /\ IsHalfFloor(crawl_calls[k].limit, max_pages)
          /\ max_pages >= 0
          /\ LimitsRequested(crawl_calls) <= max_pages
          /\ PhaseRank(pc) \in 4..6 => Len(crawl_calls) = 2)
    /\ [][/\ pc = "crawl_business" /\ pc' # pc =>
                 /\ Len(crawl_calls') = 1
                 /\ crawl_calls'[1].answer # "raise" => pc' = "crawl_help"
          /\ pc = "crawl_help" /\ pc' # pc => Len(crawl_calls') = 2]_vars

\* C28's case: max_pages is 7, the business crawl returned no data, and the
\* help-center crawl was made all the same, both with limit 3
C28_Witness ==
    /\ max_pages = 7
    /\ Len(crawl_calls) = 2
    /\ crawl_calls[1] = [url |-> business_url, limit |-> 3, answer |-> "none", pages |-> 0]
    /\ crawl_calls[2].url = help_center_url
    /\ crawl_calls[2].limit = 3
    /\ crawl_calls[2].answer = "data"
    /\ pc = "save"

====
